---- MODULE Spec2Model ----
(***************************************************************************)
(* everlog: the segment fold and the event trace (everlog/segments.py),    *)
(* the narrative orchestrator of summarize_day_to_markdown and its retry   *)
(* loop (everlog/summarize.py), what is derived from observation text, the *)
(* path from the log file to the Hour Packs, the active timeline and the   *)
(* common texts of an hour, the hour call's payload, the rendering of an   *)
(* hour's timeline entry, the clusters kept in an Hour Pack, the label     *)
(* files of enrich and summarize (everlog/enrich.py), the run-id           *)
(* (everlog/timeutil.py), and run_daily_automation                         *)
(* (everlog/daily_runner.py).  Each part has its own specification; the    *)
(* variables of the other parts stay at rest.                              *)
(*                                                                         *)
(* Timestamps are whole seconds (capture writes them with                  *)
(* timespec="seconds", timeutil.py:14); an interval_sec of 0 stands for an *)
(* absent / falsy interval, which the code replaces by the default.        *)
(***************************************************************************)
EXTENDS Integers, Sequences, FiniteSets, TLC

VARIABLES
    events,                 \* the day's observation list handed to the fold
    default_interval_sec,   \* the fold's default_interval_sec argument
    seg_pc,                 \* "input" before the fold ran, "done" after
    segments,               \* the Segment list the fold returned
    segs_raw,               \* the fold's internal segs list (with event_ids)
    rt_stage,               \* the call site whose retry loop is running
    rt_attempt,             \* `attempt` of `for attempt in range(3)`
    rt_status,              \* "calling", or how the loop ended
    rt_trace,               \* what the loop did so far: calls and sleeps
    cfg,                    \* which narrative granularities are enabled
    hour_packs,             \* the day's Hour Packs, in hour order
    files,                  \* the artifact files under out/<date>/<run_id>/
    run,                    \* how many runs of this (date, run-id) have begun
    finished,               \* how many of them returned the document path
    pc,                     \* where summarize_day_to_markdown stands
    called,                 \* granularities the current run made remote calls for
    overwrote,              \* artifacts written while their file existed
    snapshot,               \* the artifact files as the current run found them
    doc,                    \* the document the current run rendered
    tx_text,                \* the on-screen text of one observation, as tokens
    tx_pc,                  \* "input", then what was built from the text
    tx_keywords,            \* keywords of the Segment built from it
    tx_snippets,            \* ocr_snippets of the Segment built from it
    tx_hour_payload,        \* texts in the payload of the hour call
    tx_day_payload,         \* texts in the payload of the day call
    log_lines,              \* the lines of the day log file
    log_pc,                 \* "input", then which function ran on the log
    log_outcome,            \* "returned" or "raised"
    log_segments,           \* the Segment list build_segments returned
    log_packs,              \* the Hour Packs (hour, active_sec_est), in hour order
    log_doc,                \* the lines of the document written
    log_called,             \* granularities a remote call was made for
    tl_events,              \* the observations of one Segment within one hour
    tl_pc,                  \* "input", then "built"
    tl_timeline,            \* the active timeline of the Segment's Cluster
    tl_common,              \* the hour's common_counts and common-text list
    dr_today,               \* the current date, as a day number
    dr_now,                 \* the time of day, in minutes since midnight
    dr_pending,             \* daily_pending.json: retry_count of each pending date
    dr_docs,                \* per date, what its latest document under out/ is
    dr_runs,                \* how many times run_daily_automation ran
    dr_last,                \* what the run that just returned found and did
    hl_packs,               \* the Hour Packs handed to _maybe_run_hourly_llm, in hour order
    hl_env,                 \* the hourly switch, threshold and cap read from the environment
    hl_pc,                  \* "input", then "done"
    hl_eligible,            \* the hours kept after the threshold and the cap
    hl_payload,             \* the hours of the payload, in the order sent
    hl_called,              \* whether analyze_hour_blocks was called
    hr_hour,                \* the hour: narrative title and summary, cluster labels, observation
    hr_enrich,              \* hour_summary_enriched of the hour-enrich artifact, empty without one
    hr_pc,                  \* "input", then "rendered"
    hr_lines,               \* the lines the timeline printed for the hour
    tr_events,              \* the records handed to build_segments_with_event_trace
    tr_pc,                  \* "input", then "done"
    tr_segs,                \* the fold's segs list
    tr_trace,               \* the labeled event traces returned
    rid_now,                \* the wall clock: the day and the minute of the day
    rid_minute,             \* _RUN_ID_MINUTE: <<>> (None) or <<minute_key>>
    rid_seq,                \* _RUN_ID_SEQ
    rid_issued,             \* the (date, run-id) of every run started without an explicit run-id
    cl_events,              \* the active-display rows of one hour, with their observation's interval
    cl_pc,                  \* "input", then "packed"
    cl_bucket,              \* the hour's clusters dict: per segment key, ids and active_sec
    cl_clusters,            \* the segment keys of the Clusters of the Hour Pack, in order
    lb_files,               \* the label files on disk: path and the segment ids labelled
    lb_env,                 \* EVERLOG_USE_SEGMENT_LLM and the run-id of the summarize run
    lb_pc,                  \* "ready", then "summarized"
    lb_date,                \* the date summarize_day_to_markdown was called for
    lb_llm_map              \* the llm_map summarize_day_to_markdown loaded

seg_vars == <<events, default_interval_sec, seg_pc, segments, segs_raw>>

rt_vars == <<rt_stage, rt_attempt, rt_status, rt_trace>>

run_vars ==
    <<cfg, hour_packs, files, run, finished, pc, called, overwrote, snapshot,
      doc>>

tx_vars ==
    <<tx_text, tx_pc, tx_keywords, tx_snippets, tx_hour_payload, tx_day_payload>>

log_vars ==
    <<log_lines, log_pc, log_outcome, log_segments, log_packs, log_doc,
      log_called>>

tl_vars == <<tl_events, tl_pc, tl_timeline, tl_common>>

dr_vars == <<dr_today, dr_now, dr_pending, dr_docs, dr_runs, dr_last>>

hl_vars ==
    <<hl_packs, hl_env, hl_pc, hl_eligible, hl_payload, hl_called>>

hr_vars ==
    <<hr_hour, hr_enrich, hr_pc, hr_lines>>

tr_vars ==
    <<tr_events, tr_pc, tr_segs, tr_trace>>

rid_vars ==
    <<rid_now, rid_minute, rid_seq, rid_issued>>

cl_vars ==
    <<cl_events, cl_pc, cl_bucket, cl_clusters>>

lb_vars ==
    <<lb_files, lb_env, lb_pc, lb_date, lb_llm_map>>

vars ==
    <<seg_vars, rt_vars, run_vars, tx_vars, log_vars, tl_vars, dr_vars,
    hl_vars, hr_vars, tr_vars, rid_vars, cl_vars, lb_vars>>

beside_seg ==
    <<rt_vars, run_vars, tx_vars, log_vars, tl_vars, dr_vars, hl_vars,
    hr_vars, tr_vars, rid_vars, cl_vars, lb_vars>>

beside_rt ==
    <<seg_vars, run_vars, tx_vars, log_vars, tl_vars, dr_vars, hl_vars,
    hr_vars, tr_vars, rid_vars, cl_vars, lb_vars>>

beside_run ==
    <<seg_vars, rt_vars, tx_vars, log_vars, tl_vars, dr_vars, hl_vars,
    hr_vars, tr_vars, rid_vars, cl_vars, lb_vars>>

beside_tx ==
    <<seg_vars, rt_vars, run_vars, log_vars, tl_vars, dr_vars, hl_vars,
    hr_vars, tr_vars, rid_vars, cl_vars, lb_vars>>

beside_log ==
    <<seg_vars, rt_vars, run_vars, tx_vars, tl_vars, dr_vars, hl_vars,
    hr_vars, tr_vars, rid_vars, cl_vars, lb_vars>>

beside_tl ==
    <<seg_vars, rt_vars, run_vars, tx_vars, log_vars, dr_vars, hl_vars,
    hr_vars, tr_vars, rid_vars, cl_vars, lb_vars>>

beside_dr ==
    <<seg_vars, rt_vars, run_vars, tx_vars, log_vars, tl_vars, hl_vars,
    hr_vars, tr_vars, rid_vars, cl_vars, lb_vars>>

beside_hl ==
    <<seg_vars, rt_vars, run_vars, tx_vars, log_vars, tl_vars, dr_vars,
    hr_vars, tr_vars, rid_vars, cl_vars, lb_vars>>

beside_hr ==
    <<seg_vars, rt_vars, run_vars, tx_vars, log_vars, tl_vars, dr_vars,
    hl_vars, tr_vars, rid_vars, cl_vars, lb_vars>>

beside_tr ==
    <<seg_vars, rt_vars, run_vars, tx_vars, log_vars, tl_vars, dr_vars,
    hl_vars, hr_vars, rid_vars, cl_vars, lb_vars>>

beside_rid ==
    <<seg_vars, rt_vars, run_vars, tx_vars, log_vars, tl_vars, dr_vars,
    hl_vars, hr_vars, tr_vars, cl_vars, lb_vars>>

beside_cl ==
    <<seg_vars, rt_vars, run_vars, tx_vars, log_vars, tl_vars, dr_vars,
    hl_vars, hr_vars, tr_vars, rid_vars, lb_vars>>

beside_lb ==
    <<seg_vars, rt_vars, run_vars, tx_vars, log_vars, tl_vars, dr_vars,
    hl_vars, hr_vars, tr_vars, rid_vars, cl_vars>>

Stages == {"hour", "day", "enrich"}

NoFile == [exists |-> FALSE, stamp |-> 0, shape |-> "none", hours |-> {}]

NoDoc == [rendered |-> FALSE, top |-> <<>>, usage |-> <<>>, titles |-> <<>>]

NoHour ==
    [hour_title |-> << >>, hour_summary |-> << >>, labels |-> << >>,
     observation |-> << >>]

NoCommon == [common_counts |-> << >>, hour_common_texts |-> << >>]

NoRun ==
    [ran |-> FALSE, pending_before |-> {}, docs_before |-> << >>,
     attempts |-> << >>]

\* the parts of the program a specification does not exercise stay at rest
SegIdle ==
    /\ events = <<>>
    /\ default_interval_sec = 0
    /\ seg_pc = "idle"
    /\ segments = <<>>
    /\ segs_raw = <<>>

RtIdle ==
    /\ rt_stage = "none"
    /\ rt_attempt = 0
    /\ rt_status = "idle"
    /\ rt_trace = <<>>

RunIdle ==
    /\ cfg = [hourly |-> FALSE, daily |-> FALSE, enrich |-> FALSE]
    /\ hour_packs = <<>>
    /\ files = [g \in Stages |-> NoFile]
    /\ run = 0
    /\ finished = 0
    /\ pc = "off"
    /\ called = {}
    /\ overwrote = {}
    /\ snapshot = [g \in Stages |-> NoFile]
    /\ doc = NoDoc

TxIdle ==
    /\ tx_text = <<>>
    /\ tx_pc = "idle"
    /\ tx_keywords = <<>>
    /\ tx_snippets = <<>>
    /\ tx_hour_payload = {}
    /\ tx_day_payload = {}

LogIdle ==
    /\ log_lines = <<>>
    /\ log_pc = "idle"
    /\ log_outcome = "none"
    /\ log_segments = <<>>
    /\ log_packs = <<>>
    /\ log_doc = <<>>
    /\ log_called = {}

TlIdle ==
    /\ tl_events = <<>>
    /\ tl_pc = "idle"
    /\ tl_timeline = <<>>
    /\ tl_common = NoCommon

DrIdle ==
    /\ dr_today = 0
    /\ dr_now = 0
    /\ dr_pending = {}
    /\ dr_docs = << >>
    /\ dr_runs = 0
    /\ dr_last = NoRun

HlIdle ==
    /\ hl_packs = <<>>
    /\ hl_env = [enabled |-> FALSE, min_sec |-> 0, max_hours |-> 0]
    /\ hl_pc = "idle"
    /\ hl_eligible = <<>>
    /\ hl_payload = <<>>
    /\ hl_called = FALSE

HrIdle ==
    /\ hr_hour = NoHour
    /\ hr_enrich = <<>>
    /\ hr_pc = "idle"
    /\ hr_lines = <<>>

TrIdle ==
    /\ tr_events = <<>>
    /\ tr_pc = "idle"
    /\ tr_segs = <<>>
    /\ tr_trace = <<>>

RidIdle ==
    /\ rid_now = [day |-> 0, minute |-> 0]
    /\ rid_minute = <<>>
    /\ rid_seq = 0
    /\ rid_issued = <<>>

ClIdle ==
    /\ cl_events = <<>>
    /\ cl_pc = "idle"
    /\ cl_bucket = << >>
    /\ cl_clusters = <<>>

LbIdle ==
    /\ lb_files = {}
    /\ lb_env = [use_segment_llm |-> FALSE, run_id |-> ""]
    /\ lb_pc = "idle"
    /\ lb_date = 0
    /\ lb_llm_map = {}

OnlySeg ==
    RtIdle /\ RunIdle /\ TxIdle /\ LogIdle /\ TlIdle /\ DrIdle /\ HlIdle /\
    HrIdle /\ TrIdle /\ RidIdle /\ ClIdle /\ LbIdle

OnlyRt ==
    SegIdle /\ RunIdle /\ TxIdle /\ LogIdle /\ TlIdle /\ DrIdle /\
    HlIdle /\ HrIdle /\ TrIdle /\ RidIdle /\ ClIdle /\ LbIdle

OnlyRun ==
    SegIdle /\ RtIdle /\ TxIdle /\ LogIdle /\ TlIdle /\ DrIdle /\ HlIdle /\
    HrIdle /\ TrIdle /\ RidIdle /\ ClIdle /\ LbIdle

OnlyTx ==
    SegIdle /\ RtIdle /\ RunIdle /\ LogIdle /\ TlIdle /\ DrIdle /\
    HlIdle /\ HrIdle /\ TrIdle /\ RidIdle /\ ClIdle /\ LbIdle

OnlyLog ==
    SegIdle /\ RtIdle /\ RunIdle /\ TxIdle /\ TlIdle /\ DrIdle /\ HlIdle /\
    HrIdle /\ TrIdle /\ RidIdle /\ ClIdle /\ LbIdle

OnlyTl ==
    SegIdle /\ RtIdle /\ RunIdle /\ TxIdle /\ LogIdle /\ DrIdle /\
    HlIdle /\ HrIdle /\ TrIdle /\ RidIdle /\ ClIdle /\ LbIdle

OnlyDr ==
    SegIdle /\ RtIdle /\ RunIdle /\ TxIdle /\ LogIdle /\ TlIdle /\
    HlIdle /\ HrIdle /\ TrIdle /\ RidIdle /\ ClIdle /\ LbIdle

OnlyHl ==
    SegIdle /\ RtIdle /\ RunIdle /\ TxIdle /\ LogIdle /\ TlIdle /\
    DrIdle /\ HrIdle /\ TrIdle /\ RidIdle /\ ClIdle /\ LbIdle

OnlyHr ==
    SegIdle /\ RtIdle /\ RunIdle /\ TxIdle /\ LogIdle /\ TlIdle /\
    DrIdle /\ HlIdle /\ TrIdle /\ RidIdle /\ ClIdle /\ LbIdle

OnlyTr ==
    SegIdle /\ RtIdle /\ RunIdle /\ TxIdle /\ LogIdle /\ TlIdle /\
    DrIdle /\ HlIdle /\ HrIdle /\ RidIdle /\ ClIdle /\ LbIdle

OnlyRid ==
    SegIdle /\ RtIdle /\ RunIdle /\ TxIdle /\ LogIdle /\ TlIdle /\
    DrIdle /\ HlIdle /\ HrIdle /\ TrIdle /\ ClIdle /\ LbIdle

OnlyCl ==
    SegIdle /\ RtIdle /\ RunIdle /\ TxIdle /\ LogIdle /\ TlIdle /\
    DrIdle /\ HlIdle /\ HrIdle /\ TrIdle /\ RidIdle /\ LbIdle

OnlyLb ==
    SegIdle /\ RtIdle /\ RunIdle /\ TxIdle /\ LogIdle /\ TlIdle /\
    DrIdle /\ HlIdle /\ HrIdle /\ TrIdle /\ RidIdle /\ ClIdle

(***************************************************************************)
(* Bounds of the model.                                                    *)
(***************************************************************************)
MaxEvents == 3

MaxDays == 2                    \* the dates are the days 0..MaxDays

(***************************************************************************)
(* Program constants.                                                      *)
(***************************************************************************)
FallbackIntervalSec == 300      \* `int(default_interval_sec or 0) or 300`
MinGapThresholdSec == 120       \* `max(120, int(interval_sec * 2.5))`

Max(a, b) == IF a >= b THEN a ELSE b

(***************************************************************************)
(* Inputs.  An observation carries the fields the fold reads.  ts_ok says  *)
(* whether datetime.fromisoformat accepts the ts string; ts is the parsed  *)
(* time.  key stands for the (app, domain, shortened title) triple.        *)
(***************************************************************************)
TsValues == {0, 120, 241, 991}
IntervalValues == {0, 40}
DefaultValues == {0, 40}
Keys == {"Editor", "Browser"}

OkEvents ==
    [ts_ok : {TRUE}, ts : TsValues, interval_sec : IntervalValues, key : Keys,
     excluded : {FALSE}, error : {FALSE}]

SkippedEvents ==
    { [ts_ok |-> TRUE, ts |-> 120, interval_sec |-> 40, key |-> "Editor",
       excluded |-> TRUE, error |-> FALSE],
      [ts_ok |-> TRUE, ts |-> 120, interval_sec |-> 40, key |-> "Editor",
       excluded |-> FALSE, error |-> TRUE],
      [ts_ok |-> FALSE, ts |-> 0, interval_sec |-> 40, key |-> "Editor",
       excluded |-> FALSE, error |-> FALSE] }

EventValues == OkEvents \cup SkippedEvents

\* An observation as the log holds it; its position in the log is its id.
WithId(raw, i) ==
    [id |-> i, ts_ok |-> raw.ts_ok, ts |-> raw.ts,
     interval_sec |-> raw.interval_sec, key |-> raw.key,
     excluded |-> raw.excluded, error |-> raw.error]

WithIds(raw) == [i \in 1..Len(raw) |-> WithId(raw[i], i)]

\* The worked example: Editor / main.go observed at 09:00:00, 09:05:00,
\* 09:10:00 and 09:40:00 (seconds of the day), interval 300 s.
ExampleObs(t) ==
    [ts_ok |-> TRUE, ts |-> t, interval_sec |-> 300, key |-> "Editor",
     excluded |-> FALSE, error |-> FALSE]

Example3 == WithIds(<<ExampleObs(32400), ExampleObs(32700), ExampleObs(33000)>>)

Example4 ==
    WithIds(<<ExampleObs(32400), ExampleObs(32700), ExampleObs(33000),
              ExampleObs(34800)>>)

(***************************************************************************)
(* The fold, as build_segments / build_segments_with_event_trace compute   *)
(* it (the two functions share the loop).                                  *)
(***************************************************************************)
\* valid = [e for e in events if not excluded and not error]
valid_events(evs) == SelectSeq(evs, LAMBDA e : (~e.excluded) /\ (~e.error))

\* interval_sec = int(default_interval_sec or 0) or 300
effective_interval(d) == IF d = 0 THEN FallbackIntervalSec ELSE d

gap_threshold_mut(interval) == Max(MinGapThresholdSec, interval * 2)

\* gap_threshold = max(120, int(interval_sec * 2.5))
gap_threshold(interval) == Max(MinGapThresholdSec, (interval * 5) \div 2)

\* dur = int(e.get("interval_sec") or 0) or interval_sec
event_dur(e, interval) == IF e.interval_sec = 0 THEN interval ELSE e.interval_sec

\* list.sort(key=dt) is stable: insert x after every element with ts <= x.ts
RECURSIVE insert_by_ts(_, _)
insert_by_ts(sorted, x) ==
    IF sorted = <<>> THEN <<x>>
    ELSE IF Head(sorted).ts <= x.ts
         THEN <<Head(sorted)>> \o insert_by_ts(Tail(sorted), x)
         ELSE <<x>> \o sorted

RECURSIVE sort_by_ts(_)
sort_by_ts(s) ==
    IF s = <<>> THEN <<>>
    ELSE insert_by_ts(sort_by_ts(SubSeq(s, 1, Len(s) - 1)), s[Len(s)])

\* the observations with a parseable ts, in time order
valid_sorted(evs) == sort_by_ts(SelectSeq(valid_events(evs), LAMBDA e : e.ts_ok))

\* cur = {...} for the first observation of a segment
new_cur(e, dur) ==
    [key |-> e.key, start_dt |-> e.ts, last_dt |-> e.ts, last_dur |-> dur,
     duration_sec |-> dur, captures |-> 1, event_ids |-> <<e.id>>]

extend_cur_mut(cur, e, dur) ==
    [cur EXCEPT !.last_dt = e.ts, !.last_dur = dur,
                !.captures = @ + 1, !.event_ids = Append(@, e.id)]

\* the else branch: the observation joins the current segment
extend_cur(cur, e, dur) ==
    [cur EXCEPT !.last_dt = e.ts, !.last_dur = dur, !.duration_sec = @ + dur,
                !.captures = @ + 1, !.event_ids = Append(@, e.id)]

\* the condition that starts a new segment; cur is <<>> (None) or <<dict>>
starts_new_segment(cur, e, threshold) ==
    \/ cur = <<>>
    \/ e.key # cur[1].key
    \/ e.ts - cur[1].last_dt > threshold

\* one iteration of `for dt, e in valid_sorted`, on the pair (segs, cur)
fold_step(st, e, interval, threshold) ==
    LET dur == event_dur(e, interval) IN
    IF starts_new_segment(st.cur, e, threshold)
    THEN [segs |-> st.segs \o st.cur, cur |-> <<new_cur(e, dur)>>]
    ELSE [segs |-> st.segs, cur |-> <<extend_cur(st.cur[1], e, dur)>>]

RECURSIVE fold_loop(_, _, _, _)
fold_loop(st, rest, interval, threshold) ==
    IF rest = <<>> THEN st
    ELSE fold_loop(fold_step(st, Head(rest), interval, threshold), Tail(rest),
                   interval, threshold)

close_fold_mut(st) == st.segs

\* `if cur is not None: segs.append(cur)` after the loop
close_fold(st) == st.segs \o st.cur

fold_segs(evs, d) ==
    LET interval == effective_interval(d) IN
    close_fold(fold_loop([segs |-> <<>>, cur |-> <<>>], valid_sorted(evs),
                         interval, gap_threshold(interval)))

end_dt_mut(s, interval) == s.last_dt + interval

\* end_dt = s["last_dt"] + timedelta(seconds=int(s["last_dur"] or interval_sec))
end_dt(s, interval) ==
    s.last_dt + (IF s.last_dur = 0 THEN interval ELSE s.last_dur)

\* `for i, s in enumerate(segs): out.append(Segment(segment_id=i, ...))`
make_segments(segs, interval) ==
    [i \in 1..Len(segs) |->
        [segment_id |-> i - 1, start_dt |-> segs[i].start_dt,
         end_dt |-> end_dt(segs[i], interval),
         duration_sec |-> segs[i].duration_sec, captures |-> segs[i].captures,
         key |-> segs[i].key]]

build_segments(evs, d) == make_segments(fold_segs(evs, d), effective_interval(d))

(***************************************************************************)
(* The retry loop around a remote narrative call.  The same loop is        *)
(* written out at the three call sites (_maybe_run_hourly_llm,             *)
(* _maybe_run_daily_llm, _maybe_run_hour_enrich_llm).                      *)
(***************************************************************************)
MaxAttempts == 3                \* `for attempt in range(3)`

\* How one call of analyze_hour_blocks / analyze_day_summary /
\* enrich_hours_with_context can end: with an LlmResult ("ok"), with an
\* LlmError, or with another exception (the API body is valid JSON but not
\* an object, so _extract_output_text fails on `.get`).
TransientKinds == {"timeout", "rate_limit", "server_error", "conn_reset"}

PermanentKinds ==
    {"auth", "validation", "no_api_key", "empty_content", "not_json",
     "bad_json_at_17", "bad_json_at_500"}

LlmErrorKinds == TransientKinds \cup PermanentKinds

OtherExceptionKinds == {"api_body_not_object"}

CallKinds == {"ok"} \cup LlmErrorKinds \cup OtherExceptionKinds

\* str(err).lower(), as the fragments of the message that matter
\*   "OpenAI API request failed: <urlopen error timed out>"
\*   "OpenAI API request failed: HTTP Error 429: Too Many Requests"
\*   "OpenAI API request failed: HTTP Error 503: Service Unavailable"
\*   "OpenAI API request failed: [Errno 104] Connection reset by peer"
\*   "OpenAI API request failed: HTTP Error 401: Unauthorized"
\*   "OpenAI API request failed: HTTP Error 400: Bad Request"
\*   "OPENAI_API_KEY is not set."
\*   "OpenAI API returned empty content."
\*   "LLM output is not valid JSON."
\*   "Failed to parse JSON from LLM output: Expecting ',' delimiter: line 1
\*    column 18 (char 17)"  /  "... line 9 column 3 (char 500)"
llm_error_message(kind) ==
    CASE kind = "timeout" -> {"openai api request failed", "timed out"}
      [] kind = "rate_limit" ->
            {"openai api request failed", "http error", "429", "too many requests"}
      [] kind = "server_error" ->
            {"openai api request failed", "http error", "503", "service unavailable"}
      [] kind = "conn_reset" ->
            {"openai api request failed", "errno", "104", "connection reset"}
      [] kind = "auth" ->
            {"openai api request failed", "http error", "401", "unauthorized"}
      [] kind = "validation" ->
            {"openai api request failed", "http error", "400", "bad request"}
      [] kind = "no_api_key" -> {"openai_api_key is not set"}
      [] kind = "empty_content" -> {"openai api returned empty content"}
      [] kind = "not_json" -> {"llm output is not valid json"}
      [] kind = "bad_json_at_17" ->
            {"failed to parse json from llm output", "expecting", "delimiter", "17"}
      [] kind = "bad_json_at_500" ->
            {"failed to parse json from llm output", "expecting", "delimiter", "500"}

retryable_tokens ==
    {"timed out", "timeout", "tempor", "rate limit", "429", "500", "502", "503",
     "504", "service unavailable", "connection reset", "broken pipe"}

\* any(tok in msg for tok in retryable_tokens)
is_retryable_llm_error(kind) ==
    \E tok \in retryable_tokens : tok \in llm_error_message(kind)

wait_sec_mut(attempt) == 1

\* wait_sec = 1.0 + float(attempt)
wait_sec(attempt) == 1 + attempt

\* One pass through the loop body for a call that ended as `kind`;
\* reachable is what _llm_network_reachable() answers if it is asked.
\*   next: "break" (res is set), "none" (return None), "retry", "raise"
attempt_step(attempt, kind, reachable) ==
    IF kind = "ok"
    THEN [next |-> "break", probe |-> "unasked", wait |-> 0]
    ELSE IF kind \notin LlmErrorKinds
    THEN [next |-> "raise", probe |-> "unasked", wait |-> 0]
    ELSE IF attempt >= MaxAttempts - 1
    THEN [next |-> "none", probe |-> "unasked", wait |-> 0]
    ELSE IF ~is_retryable_llm_error(kind)
    THEN [next |-> "none", probe |-> "unasked", wait |-> 0]
    ELSE IF ~reachable
    THEN [next |-> "none", probe |-> "down", wait |-> 0]
    ELSE [next |-> "retry", probe |-> "up", wait |-> wait_sec(attempt)]

CallEvent(kind, probe) == [ev |-> "call", kind |-> kind, probe |-> probe, sec |-> 0]

SleepEvent(sec) == [ev |-> "sleep", kind |-> "none", probe |-> "unasked", sec |-> sec]

RtInit ==
    /\ rt_stage \in Stages
    /\ rt_attempt = 0
    /\ rt_status = "calling"
    /\ rt_trace = <<>>
    /\ OnlyRt

\* one iteration of the loop: the call, and what the except clause does
RtAttempt(kind, reachable) ==
    LET step == attempt_step(rt_attempt, kind, reachable) IN
    /\ rt_status = "calling"
    /\ rt_attempt < MaxAttempts
    /\ rt_trace' =
          IF step.next = "retry"
          THEN rt_trace \o <<CallEvent(kind, step.probe), SleepEvent(step.wait)>>
          ELSE Append(rt_trace, CallEvent(kind, step.probe))
    /\ rt_attempt' = IF step.next = "retry" THEN rt_attempt + 1 ELSE rt_attempt
    /\ rt_status' =
          CASE step.next = "retry" -> "calling"
            [] step.next = "break" -> "res"
            [] step.next = "none" -> "none"
            [] step.next = "raise" -> "raised"
    /\ UNCHANGED rt_stage
    /\ UNCHANGED beside_rt

CallSucceeds == RtAttempt("ok", TRUE)

CallFailsWithLlmError ==
    \E kind \in LlmErrorKinds, reachable \in BOOLEAN : RtAttempt(kind, reachable)

CallRaisesOther == \E kind \in OtherExceptionKinds : RtAttempt(kind, TRUE)

RtNext == CallSucceeds \/ CallFailsWithLlmError \/ CallRaisesOther

RetrySpec == RtInit /\ [][RtNext]_vars

(***************************************************************************)
(* The narrative orchestrator, summarize_day_to_markdown: the hour, day    *)
(* and hour-enrich stages over the artifact files of one (date, run-id),   *)
(* then the rendering of the document.  The log of the day is not empty    *)
(* and does not change between runs.                                       *)
(***************************************************************************)
MaxHours == 2

MaxRuns == 2

HourlyMinSec == 120             \* _hourly_llm_min_sec() default

HourlyMaxHours == 24            \* _hourly_llm_max_hours() default

RetentionDays == 7              \* _out_retention_days() default

\* The loop of a call site run to its end against the outcomes of its
\* calls: oracle[k] is how the k-th call would end and what the probe says.
RECURSIVE run_retry_loop(_, _)
run_retry_loop(oracle, attempt) ==
    LET step == attempt_step(attempt, oracle[attempt + 1].kind,
                             oracle[attempt + 1].reachable)
    IN  IF step.next = "retry"
        THEN run_retry_loop(oracle, attempt + 1)
        ELSE [status |-> CASE step.next = "break" -> "res"
                           [] step.next = "none" -> "none"
                           [] step.next = "raise" -> "raised",
              calls |-> attempt + 1]

Oracles == [1..MaxAttempts -> [kind : CallKinds, reachable : BOOLEAN]]

LoopResults == {run_retry_loop(o, 0) : o \in Oracles}

\* What the parsed content of a successful response (LlmResult.data) can
\* look like: the expected object; an object without usable entries; an
\* object whose "hours" holds things that are not objects; not an object.
ResultShapes == {"full", "empty", "bad_items", "not_object"}

\* An Hour Pack, as far as the stages look at it.
PackValues ==
    { [active_sec_est |-> 600, has_cluster |-> TRUE, has_common |-> FALSE],
      [active_sec_est |-> 600, has_cluster |-> FALSE, has_common |-> TRUE],
      [active_sec_est |-> 600, has_cluster |-> FALSE, has_common |-> FALSE],
      [active_sec_est |-> 60, has_cluster |-> TRUE, has_common |-> FALSE] }

PackLists == UNION {[1..n -> PackValues] : n \in 0..MaxHours}

\* _hourly_llm_enabled / _daily_llm_enabled / _hour_enrich_llm_enabled
Configs ==
    {c \in [hourly : BOOLEAN, daily : BOOLEAN, enrich : BOOLEAN] :
        c.enrich => c.daily}

\* _cleanup_old_out_dirs removes out/<date> once the date is old enough
cleanup_old_out_dirs(fs, age_days) ==
    IF age_days >= RetentionDays THEN [g \in Stages |-> NoFile] ELSE fs

\* ensure_dirs -> _maybe_cleanup_old_out_dirs: due in a fresh process, or
\* when the cleanup interval has passed since the last cleanup
maybe_cleanup_old_out_dirs(fs, due, age_days) ==
    IF due THEN cleanup_old_out_dirs(fs, age_days) ELSE fs

\* _load_hourly_llm_map: `it.get(...)` on an entry that is not an object
hourly_load_raises(f) == f.exists /\ f.shape = "bad_items"

hourly_llm_map(f) == IF f.exists /\ f.shape = "full" THEN f.hours ELSE {}

\* _load_daily_llm: the whole file, so any existing file is a truthy dict
daily_llm_loaded(f) == f.exists

daily_has_context_mut(f) == f.exists

\* daily_llm["daily"] has a daily_title or a daily_summary
daily_has_context(f) == f.exists /\ f.shape = "full"

\* _load_hour_enrich_llm_map: entries that are not objects are skipped
hour_enrich_llm_map(f) == IF f.exists /\ f.shape = "full" THEN f.hours ELSE {}

hour_eligible(packs) ==
    {i \in DOMAIN packs : packs[i].active_sec_est >= HourlyMinSec}

\* sorted by (-active_sec_est, hour_start_ts)[:max_hours]
cap_hours(eligible, packs) ==
    IF HourlyMaxHours > 0 /\ Cardinality(eligible) > HourlyMaxHours
    THEN {i \in eligible :
            Cardinality({j \in eligible :
                \/ packs[j].active_sec_est > packs[i].active_sec_est
                \/ /\ packs[j].active_sec_est = packs[i].active_sec_est
                   /\ j < i}) < HourlyMaxHours}
    ELSE eligible

\* _build_hourly_llm_input
hourly_llm_input(eligible, packs) ==
    {i \in eligible : packs[i].has_cluster \/ packs[i].has_common}

NoCall == [ret |-> "none", calls |-> 0, shape |-> "none", hours |-> {}]

Returned(ret, r, shape, hours) ==
    [ret |-> ret, calls |-> r.calls, shape |-> shape, hours |-> hours]

\* ret: "out" (a dict to write), "none" (None), "raise"
maybe_run_hourly_llm(enabled, packs, r, shape) ==
    LET eligible == cap_hours(hour_eligible(packs), packs)
        payload == hourly_llm_input(eligible, packs)
    IN  IF ~enabled \/ eligible = {} \/ payload = {} THEN NoCall
        ELSE IF r.status = "raised" THEN Returned("raise", r, "none", {})
        ELSE IF r.status = "none" THEN Returned("none", r, "none", {})
        ELSE IF shape = "not_object"            \* res.data.get("hours")
        THEN Returned("raise", r, "none", {})
        ELSE Returned("out", r, shape, IF shape = "full" THEN payload ELSE {})

maybe_run_daily_llm(enabled, packs, hourly_map, r, shape) ==
    LET hours_in == {i \in DOMAIN packs :
                        \/ i \in hourly_map
                        \/ packs[i].has_cluster
                        \/ packs[i].has_common}
    IN  IF ~enabled \/ packs = <<>> \/ hours_in = {} THEN NoCall
        ELSE IF r.status = "raised" THEN Returned("raise", r, "none", {})
        ELSE IF r.status = "none" THEN Returned("none", r, "none", {})
        ELSE Returned("out", r, IF shape = "full" THEN "full" ELSE "empty", {})

maybe_run_hour_enrich_llm(enabled, daily_file, hourly_map, packs, r, shape) ==
    LET hours_overview == {i \in DOMAIN packs :
                              i \in hourly_map \/ packs[i].has_cluster}
    IN  IF ~enabled \/ ~daily_llm_loaded(daily_file) \/ hourly_map = {}
        THEN NoCall
        ELSE IF ~daily_has_context(daily_file) \/ hours_overview = {}
        THEN NoCall
        ELSE IF r.status = "raised" THEN Returned("raise", r, "none", {})
        ELSE IF r.status = "none" THEN Returned("none", r, "none", {})
        ELSE Returned("out", r, IF shape = "not_object" THEN "empty" ELSE shape,
                      IF shape = "full" THEN hours_overview ELSE {})

hourly_llm_missing_mut(required, packs, f) ==
    required /\ packs # <<>> /\ ~f.exists

\* hourly_llm_missing = bool(hourly_llm_required and hour_packs and not hourly_llm_map)
hourly_llm_missing(required, packs, f) ==
    required /\ packs # <<>> /\ hourly_llm_map(f) = {}

\* "hour_llm > cluster_labels > unknown"
display_title(pack, in_map) ==
    IF in_map THEN "hour_llm"
    ELSE IF pack.has_cluster THEN "cluster_label" ELSE "unknown"

\* the line of the usage breakdown for one call site: its token counts when
\* the artifact's meta was loaded, "not run" otherwise
usage_line(g, c, fs, run_no) ==
    LET loaded ==
           IF g = "enrich"
           THEN /\ c.enrich
                /\ \/ hour_enrich_llm_map(fs[g]) # {}
                   \/ fs[g].exists /\ fs[g].stamp = run_no
           ELSE fs[g].exists
    IN  IF loaded THEN <<g, "tokens">> ELSE <<g, "not_run">>

render(c, packs, fs, run_no) ==
    [rendered |-> TRUE,
     usage |-> <<usage_line("hour", c, fs, run_no),
                 usage_line("day", c, fs, run_no),
                 usage_line("enrich", c, fs, run_no)>>,
     top |-> IF hourly_llm_missing(c.hourly, packs, fs["hour"])
             THEN <<"header", "", "hour_warning", "hour_warning_hint", "">>
             ELSE <<"header", "">>,
     titles |-> [i \in DOMAIN packs |->
                    display_title(packs[i], i \in hourly_llm_map(fs["hour"]))]]

RunInit ==
    /\ cfg \in Configs
    /\ hour_packs \in PackLists
    /\ files = [g \in Stages |-> NoFile]
    /\ run = 0
    /\ finished = 0
    /\ pc = "idle"
    /\ called = {}
    /\ overwrote = {}
    /\ snapshot = [g \in Stages |-> NoFile]
    /\ doc = NoDoc
    /\ OnlyRun

\* summarize_day_to_markdown is entered; a run that raised is over
BeginRun ==
    /\ pc \in {"idle", "raised"}
    /\ run < MaxRuns
    /\ \E due \in BOOLEAN, age_days \in {0, RetentionDays} :
          files' = maybe_cleanup_old_out_dirs(files, due, age_days)
    /\ snapshot' = files
    /\ run' = run + 1
    /\ called' = {}
    /\ doc' = NoDoc
    /\ pc' = "hour"
    /\ UNCHANGED <<cfg, hour_packs, finished, overwrote>>
    /\ UNCHANGED beside_run

\* what a stage does with the outcome of its _maybe_run_* call
StageEffect(g, out) ==
    /\ called' = IF out.calls > 0 THEN called \cup {g} ELSE called
    /\ IF out.ret = "out"
       THEN /\ files' = [files EXCEPT ![g] =
                            [exists |-> TRUE, stamp |-> run,
                             shape |-> out.shape, hours |-> out.hours]]
            /\ overwrote' = IF files[g].exists THEN overwrote \cup {g}
                            ELSE overwrote
       ELSE UNCHANGED <<files, overwrote>>
    /\ UNCHANGED <<cfg, hour_packs, run, finished, snapshot, doc>>
    /\ UNCHANGED beside_run

Skip(next_pc) ==
    /\ pc' = next_pc
    /\ UNCHANGED <<cfg, hour_packs, files, run, finished, called, overwrote,
                   snapshot, doc>>
    /\ UNCHANGED beside_run

HourStage ==
    /\ pc = "hour"
    /\ IF hourly_load_raises(files["hour"])
       THEN Skip("raised")
       ELSE IF cfg.hourly /\ hourly_llm_map(files["hour"]) = {}
       THEN \E r \in LoopResults, shape \in ResultShapes :
               LET out == maybe_run_hourly_llm(cfg.hourly, hour_packs, r, shape)
               IN  /\ StageEffect("hour", out)
                   /\ pc' = IF out.ret = "raise" THEN "raised"
                            ELSE IF out.ret = "out" /\ out.shape = "bad_items"
                            THEN "raised"
                            ELSE "day"
       ELSE Skip("day")

DayStage ==
    /\ pc = "day"
    /\ IF cfg.daily /\ ~daily_llm_loaded(files["day"]) /\ hour_packs # <<>>
       THEN \E r \in LoopResults, shape \in ResultShapes :
               LET out == maybe_run_daily_llm(cfg.daily, hour_packs,
                              hourly_llm_map(files["hour"]), r, shape)
               IN  /\ StageEffect("day", out)
                   /\ pc' = IF out.ret = "raise" THEN "raised" ELSE "enrich"
       ELSE Skip("enrich")

EnrichStage ==
    /\ pc = "enrich"
    /\ IF /\ cfg.enrich
          /\ hour_enrich_llm_map(files["enrich"]) = {}
          /\ daily_llm_loaded(files["day"])
          /\ hourly_llm_map(files["hour"]) # {}
       THEN \E r \in LoopResults, shape \in ResultShapes :
               LET out == maybe_run_hour_enrich_llm(cfg.enrich, files["day"],
                              hourly_llm_map(files["hour"]), hour_packs, r, shape)
               IN  /\ StageEffect("enrich", out)
                   /\ pc' = IF out.ret = "raise" THEN "raised" ELSE "render"
       ELSE Skip("render")

Render ==
    /\ pc = "render"
    /\ doc' = render(cfg, hour_packs, files, run)
    /\ pc' = "idle"
    /\ finished' = finished + 1
    /\ UNCHANGED <<cfg, hour_packs, files, run, called, overwrote, snapshot>>
    /\ UNCHANGED beside_run

RunNext == BeginRun \/ HourStage \/ DayStage \/ EnrichStage \/ Render

RunSpec == RunInit /\ [][RunNext]_vars

(***************************************************************************)
(* What is derived from the on-screen text of an observation: the          *)
(* keywords and snippets of its Segment (segments.py) and the texts that   *)
(* reach the payloads of the hour and day calls (summarize.py).  A text is *)
(* a sequence of whitespace-separated tokens; the observation is valid,    *)
(* has one display, the active one, and makes up the whole day.            *)
(***************************************************************************)
MaxTokens == 2

KeywordLimit == 8               \* s["keywords"].most_common(8)

SnippetLimit == 3               \* s["snippets"].most_common(3)

ApiKey == "sk-1234567890abcdef"

\* the same key right after a word character: no \b in front of "sk-"
GluedApiKey == "id_sk-1234567890abcdef"

EmailAddress == "dev@example.com"

UrlToken == "https://github.com/org/repo"

PathToken == "/Users/me/notes"

FileToken == "main.py"

LiteralToken == "2>&1"

MaskedKey == "sk-..."

MaskedEmail == "[REDACTED_EMAIL]"

Tokens ==
    {"review", ApiKey, GluedApiKey, EmailAddress, UrlToken, PathToken,
     FileToken, LiteralToken}

\* _API_KEY_RE.sub, then _EMAIL_RE.sub, on one token
redact_derived_token(tok) ==
    IF tok = ApiKey THEN MaskedKey
    ELSE IF tok = EmailAddress THEN MaskedEmail
    ELSE tok

redact_derived_text(text) ==
    [i \in DOMAIN text |-> redact_derived_token(text[i])]

\* _extract_url_like: host + path of each URL first, then the bare domains,
\* among them the domain of an e-mail address; no duplicates
extract_url_like(text) ==
    (IF \E i \in DOMAIN text : text[i] = UrlToken
       THEN <<"github.com/org/repo">> ELSE <<>>)
    \o (IF \E i \in DOMAIN text : text[i] = EmailAddress
          THEN <<"example.com">> ELSE <<>>)

extract_posix_paths(text) ==
    LET hits == SelectSeq(text, LAMBDA tok : tok = PathToken)
    IN  IF hits = <<>> THEN <<>> ELSE <<hits[1]>>

extract_event_features(text) ==
    [urls |-> extract_url_like(text), paths |-> extract_posix_paths(text)]

\* feats.get(key) or []
feats_get(feats, key) == IF key \in DOMAIN feats THEN feats[key] ELSE <<>>

SeqCount(items, x) == Cardinality({i \in DOMAIN items : items[i] = x})

FirstIndex(items, x) ==
    CHOOSE i \in DOMAIN items :
        items[i] = x /\ \A j \in DOMAIN items : items[j] = x => i <= j

\* Counter(items).most_common(n): by count, ties in order of first appearance
RECURSIVE most_common(_, _)
most_common(items, n) ==
    IF items = <<>> \/ n = 0 THEN <<>>
    ELSE LET best ==
                CHOOSE x \in {items[i] : i \in DOMAIN items} :
                    \A y \in {items[i] : i \in DOMAIN items} :
                        \/ SeqCount(items, x) > SeqCount(items, y)
                        \/ /\ SeqCount(items, x) = SeqCount(items, y)
                           /\ FirstIndex(items, x) <= FirstIndex(items, y)
         IN  <<best>> \o
             most_common(SelectSeq(items, LAMBDA y : y # best), n - 1)

\* build_segments over the one observation: what its Segment lists
segment_keywords(text) ==
    most_common(feats_get(extract_event_features(text), "keywords"),
                KeywordLimit)

segment_snippets(text) ==
    most_common(feats_get(extract_event_features(text), "snippets"),
                SnippetLimit)

\* _event_display_entries: the display's text, whitespace flattened
event_display_entries(text) ==
    <<[display |-> 1, ocr_text |-> text, is_active_display |-> TRUE]>>

\* _build_segment_groups: per display, an event row for a non-empty text
segment_group_events(entries) ==
    SelectSeq(entries, LAMBDA d : d.ocr_text # <<>>)

\* _build_hour_packs: the cluster's active timeline
active_timeline(rows) ==
    SelectSeq(rows, LAMBDA ev : ev.is_active_display /\ ev.ocr_text # <<>>)

\* _build_hourly_llm_input copies clusters[].active_timeline
hourly_payload_texts(text) ==
    LET timeline ==
           active_timeline(segment_group_events(event_display_entries(text)))
    IN  {timeline[i].ocr_text : i \in DOMAIN timeline}

\* _hour_pack_observation: the first non-empty text of a timeline
hour_pack_observation(text) ==
    LET timeline ==
           active_timeline(segment_group_events(event_display_entries(text)))
    IN  IF timeline = <<>> THEN <<>> ELSE timeline[1].ocr_text

\* _maybe_run_daily_llm without an hour narrative: the hour's title is its
\* cluster label, its summary _shorten_token(observation)
daily_payload_texts(text) ==
    IF hour_pack_observation(text) = <<>> THEN {}
    ELSE {redact_derived_text(hour_pack_observation(text))}

TxInit ==
    /\ tx_text = <<>>
    /\ tx_pc = "input"
    /\ tx_keywords = <<>>
    /\ tx_snippets = <<>>
    /\ tx_hour_payload = {}
    /\ tx_day_payload = {}
    /\ OnlyTx

AppendToken ==
    /\ tx_pc = "input"
    /\ Len(tx_text) < MaxTokens
    /\ \E tok \in Tokens : tx_text' = Append(tx_text, tok)
    /\ UNCHANGED <<tx_pc, tx_keywords, tx_snippets, tx_hour_payload,
                   tx_day_payload>>
    /\ UNCHANGED beside_tx

BuildSegmentFromText ==
    /\ tx_pc = "input"
    /\ tx_keywords' = segment_keywords(tx_text)
    /\ tx_snippets' = segment_snippets(tx_text)
    /\ tx_pc' = "segment"
    /\ UNCHANGED <<tx_text, tx_hour_payload, tx_day_payload>>
    /\ UNCHANGED beside_tx

BuildPayloads ==
    /\ tx_pc = "input"
    /\ tx_hour_payload' = hourly_payload_texts(tx_text)
    /\ tx_day_payload' = daily_payload_texts(tx_text)
    /\ tx_pc' = "payload"
    /\ UNCHANGED <<tx_text, tx_keywords, tx_snippets>>
    /\ UNCHANGED beside_tx

TxNext == AppendToken \/ BuildSegmentFromText \/ BuildPayloads

TextSpec == TxInit /\ [][TxNext]_vars

(***************************************************************************)
(* From the log file to the document: read_jsonl (jsonl.py), then either   *)
(* build_segments called on what was read, or summarize_day_to_markdown up *)
(* to the Hour Packs (summarize.py).  A line records what the code asks of *)
(* it: json, whether json.loads accepts it; object, whether the value is a *)
(* JSON object; ts_ok, whether datetime.fromisoformat accepts its ts;      *)
(* interval_ok, whether int() accepts its interval_sec.  Every record has  *)
(* the same application key.                                               *)
(***************************************************************************)
HourSec == 3600                 \* dt.replace(minute=0, second=0, microsecond=0)

LogTs == {32400, 36000}         \* 09:00:00 and 10:00:00

LogIntervals == {0, 60, 300}

LogRecord(ts_ok, ts, interval_ok, interval_sec, excluded, error) ==
    [id |-> 0, json |-> TRUE, object |-> TRUE, ts_ok |-> ts_ok, ts |-> ts,
     interval_ok |-> interval_ok, interval_sec |-> interval_sec,
     key |-> "Editor", excluded |-> excluded, error |-> error]

GoodLines ==
    {LogRecord(TRUE, t, TRUE, iv, FALSE, FALSE) : t \in LogTs, iv \in LogIntervals}

\* a line json.loads rejects
NotJsonLine ==
    [LogRecord(FALSE, 0, TRUE, 0, FALSE, FALSE) EXCEPT !.json = FALSE]

\* a line holding a JSON value that is not an object, such as 5
ScalarLine ==
    [LogRecord(FALSE, 0, TRUE, 0, FALSE, FALSE) EXCEPT !.object = FALSE]

\* "ts": "yesterday", or no ts at all
BadTsLine == LogRecord(FALSE, 0, TRUE, 300, FALSE, FALSE)

\* "interval_sec": "abc"
TextIntervalLine == LogRecord(TRUE, 32400, FALSE, 0, FALSE, FALSE)

ExcludedLine == LogRecord(TRUE, 32400, TRUE, 300, TRUE, FALSE)

ErroredLine == LogRecord(TRUE, 36000, TRUE, 300, FALSE, TRUE)

LineValues ==
    GoodLines \cup
    {NotJsonLine, ScalarLine, BadTsLine, TextIntervalLine, ExcludedLine,
     ErroredLine}

\* observations at 09:00:00, 09:05:00 and 09:10:00, interval 300 s
ExampleLog3 ==
    [i \in 1..3 |->
        [LogRecord(TRUE, 32400 + 300 * (i - 1), TRUE, 300, FALSE, FALSE)
            EXCEPT !.id = i]]

\* read_jsonl: every line json.loads accepts, whatever its value
read_jsonl(lines) == SelectSeq(lines, LAMBDA l : l.json)

\* build_segments: e.get(...) on every record, int(e.get("interval_sec"))
\* on the valid ones whose ts parses
build_segments_raises(evs) ==
    \/ \E i \in DOMAIN evs : ~evs[i].object
    \/ \E i \in DOMAIN evs :
          /\ ~evs[i].excluded /\ ~evs[i].error /\ evs[i].ts_ok
          /\ ~evs[i].interval_ok

\* interval_sec = int((events[-1].get("interval_sec") ...) or 0) or 300
last_interval(evs) == effective_interval(evs[Len(evs)].interval_sec)

counts_in_bucket_mut(e) == e.ts_ok /\ ~e.excluded /\ ~e.error

\* the bucket loop of _build_hour_packs skips only `dt is None`
counts_in_bucket(e) == e.ts_ok

RECURSIVE bucket_loop(_, _, _)
bucket_loop(evs, interval, buckets) ==
    IF evs = <<>> THEN buckets
    ELSE LET e == Head(evs)
             hour == e.ts \div HourSec
             before == IF hour \in DOMAIN buckets THEN buckets[hour] ELSE 0
         IN  IF counts_in_bucket(e)
             THEN bucket_loop(Tail(evs), interval,
                     [h \in DOMAIN buckets \cup {hour} |->
                         IF h = hour THEN before + event_dur(e, interval)
                         ELSE buckets[h]])
             ELSE bucket_loop(Tail(evs), interval, buckets)

RECURSIVE rows_in_hour_order(_)
rows_in_hour_order(buckets) ==
    IF DOMAIN buckets = {} THEN <<>>
    ELSE LET first == CHOOSE h \in DOMAIN buckets :
                          \A g \in DOMAIN buckets : h <= g
         IN  <<[hour |-> first, active_sec_est |-> buckets[first]]>> \o
             rows_in_hour_order(
                 [h \in DOMAIN buckets \ {first} |-> buckets[h]])

\* _build_hour_packs, as far as active_sec_est goes
build_hour_packs(evs, default) ==
    rows_in_hour_order(
        bucket_loop(evs, effective_interval(default), << >>))

\* _build_hour_packs fills event_interval from every record with an id
build_hour_packs_raises(evs) == \E i \in DOMAIN evs : ~evs[i].interval_ok

\* summarize_day_to_markdown, from `excluded_events = ...` to the Hour Packs
summarize_raises(evs) ==
    \/ \E i \in DOMAIN evs : ~evs[i].object
    \/ ~evs[Len(evs)].interval_ok
    \/ build_segments_raises(evs)
    \/ build_hour_packs_raises(evs)

no_log_document_mut == <<"header", "">>

\* f"# ... {date}\n\n(no log)\n"
no_log_document == <<"header", "", "no_log">>

\* the document the rendering of RunSpec writes
report_document == <<"header", "", "report">>

LogInit ==
    /\ log_lines \in {<<>>, ExampleLog3}
    /\ log_pc = "input"
    /\ log_outcome = "none"
    /\ log_segments = <<>>
    /\ log_packs = <<>>
    /\ log_doc = <<>>
    /\ log_called = {}
    /\ OnlyLog

AppendLine ==
    /\ log_pc = "input"
    /\ Len(log_lines) < MaxEvents
    /\ \E l \in LineValues :
          log_lines' = Append(log_lines, [l EXCEPT !.id = Len(log_lines) + 1])
    /\ UNCHANGED <<log_pc, log_outcome, log_segments, log_packs, log_doc,
                   log_called>>
    /\ UNCHANGED beside_log

\* build_segments(read_jsonl(path), default_interval_sec)
CallBuildSegments ==
    /\ log_pc = "input"
    /\ log_pc' = "built"
    /\ \E d \in LogIntervals :
          LET evs == read_jsonl(log_lines) IN
          IF build_segments_raises(evs)
          THEN /\ log_outcome' = "raised"
               /\ log_segments' = <<>>
          ELSE /\ log_outcome' = "returned"
               /\ log_segments' = build_segments(evs, d)
    /\ UNCHANGED <<log_lines, log_packs, log_doc, log_called>>
    /\ UNCHANGED beside_log

\* summarize_day_to_markdown(date); the narrative stages that follow the
\* Hour Packs decide which remote calls are made
SummarizeDay ==
    /\ log_pc = "input"
    /\ log_pc' = "summarized"
    /\ LET evs == read_jsonl(log_lines) IN
       IF evs = <<>>
       THEN /\ log_outcome' = "returned"
            /\ log_doc' = no_log_document
            /\ log_segments' = <<>>
            /\ log_packs' = <<>>
            /\ log_called' = {}
       ELSE IF summarize_raises(evs)
       THEN /\ log_outcome' = "raised"
            /\ log_doc' = <<>>
            /\ log_segments' = <<>>
            /\ log_packs' = <<>>
            /\ log_called' = {}
       ELSE /\ log_outcome' = "returned"
            /\ log_doc' = report_document
            /\ log_segments' = build_segments(evs, last_interval(evs))
            /\ log_packs' = build_hour_packs(evs, last_interval(evs))
            /\ IF log_packs' = <<>>
               THEN log_called' = {}
               ELSE log_called' \in SUBSET Stages
    /\ UNCHANGED log_lines
    /\ UNCHANGED beside_log

LogNext == AppendLine \/ CallBuildSegments \/ SummarizeDay

LogSpec == LogInit /\ [][LogNext]_vars

(***************************************************************************)
(* The active timeline of a Cluster (_event_display_entries in             *)
(* segments.py, _build_segment_groups and _build_hour_packs in             *)
(* summarize.py), for the observations of one Segment that fall in one     *)
(* hour.  An observation has two displays; texts[d] is what display d      *)
(* shows, a sequence of sentences; active_display is the display the       *)
(* capture marked active, 0 when it marked none.  Observations are in time *)
(* order and their position is their event id.                             *)
(***************************************************************************)
MaxObs == 2
SimilarityPercent == 88          \* `threshold: float = 0.88`
SubstringMinLen == 12            \* `len(na) >= 12`
ClusterCap == 3                 \* `clusters_sorted[:3]`
CommonCap == 20                 \* `common_texts[:20]`, `hour_common_texts[:20]`

DisplayTexts ==
    <<{<<>>, <<"a">>, <<"a", "b">>}, {<<>>, <<"a">>, <<"c">>}>>

\* a wide pair of screens: 21 distinct sentences, one on both displays
WideTexts ==
    <<<<"p01", "p02", "p03", "p04", "p05", "p06", "p07", "p08", "p09", "p10",
        "z">>,
      <<"z", "qq01", "qq02", "qq03", "qq04", "qq05", "qq06", "qq07", "qq08",
        "qq09", "qq10">>>>

WideObs == [id |-> 0, active_display |-> 1, texts |-> WideTexts]

WideExample == <<[WideObs EXCEPT !.id = 1], [WideObs EXCEPT !.id = 2]>>

Sentences ==
    {"a", "b", "c"}
    \cup {WideTexts[d][k] : d \in 1..2, k \in 1..11}

ObsValues ==
    {[id |-> 0, active_display |-> ad, texts |-> <<t1, t2>>] :
        ad \in {0, 1, 2}, t1 \in DisplayTexts[1], t2 \in DisplayTexts[2]}

\* is_active = display_num == active_display, both known
display_entries(e) ==
    [d \in 1..2 |->
        [display |-> d, ocr_text |-> e.texts[d],
         is_active_display |-> (e.active_display # 0 /\ d = e.active_display)]]

\* _sent_counts[norm]: in how many observations display d shows sentence s
sent_count(evs, d, s) ==
    Cardinality({i \in DOMAIN evs :
        \E k \in DOMAIN display_entries(evs[i])[d].ocr_text :
            display_entries(evs[i])[d].ocr_text[k] = s})

\* freq_norms = {n for n, c in _sent_counts.items() if c >= 2}
freq_norms(evs, d) ==
    {s \in Sentences : sent_count(evs, d, s) >= 2}

\* the sentences of one text that are neither frequent nor seen before
RECURSIVE new_sentences(_, _, _)
new_sentences(sentences, freq, seen) ==
    IF sentences = <<>> THEN <<>>
    ELSE LET s == Head(sentences)
         IN  IF s \in freq \/ s \in seen
             THEN new_sentences(Tail(sentences), freq, seen)
             ELSE <<s>> \o new_sentences(Tail(sentences), freq, seen \cup {s})

\* events_out of display d: one row per observation whose display d shows
\* text, with the sentences new to the Segment (the first one if none is)
RECURSIVE events_out(_, _, _, _)
events_out(evs, d, freq, seen_global) ==
    IF evs = <<>> THEN <<>>
    ELSE LET entry == display_entries(Head(evs))[d]
             fresh == new_sentences(entry.ocr_text, freq, seen_global)
             kept == IF fresh = <<>> THEN <<entry.ocr_text[1]>> ELSE fresh
         IN  IF entry.ocr_text = <<>>
             THEN events_out(Tail(evs), d, freq, seen_global)
             ELSE <<[event_id |-> Head(evs).id,
                     is_active_display |-> entry.is_active_display,
                     ocr_text |-> kept]>>
                  \o events_out(Tail(evs), d, freq,
                        seen_global \cup {kept[k] : k \in DOMAIN kept})

in_active_timeline_mut(ev) == TRUE

\* `if not bool(ev.get("is_active_display")): continue`
in_active_timeline(ev) == ev.is_active_display

\* cluster["active_events"]: display by display, the rows that pass
active_events(evs) ==
    SelectSeq(events_out(evs, 1, freq_norms(evs, 1), {}), in_active_timeline)
    \o SelectSeq(events_out(evs, 2, freq_norms(evs, 2), {}), in_active_timeline)

\* active_events.sort(key=(dt, eid)), then one row per event id
RECURSIVE timeline_from(_, _)
timeline_from(rows, eid) ==
    IF eid > MaxObs + 1 THEN <<>>
    ELSE LET mine == SelectSeq(rows, LAMBDA r : r.event_id = eid)
         IN  (IF mine = <<>> THEN <<>>
              ELSE <<[event_id |-> eid, ocr_text |-> mine[1].ocr_text]>>)
             \o timeline_from(rows, eid + 1)

cluster_active_timeline(evs) == timeline_from(active_events(evs), 1)

\* displays in the order display_info met them: first observation first
RECURSIVE display_order(_, _)
display_order(evs, known) ==
    IF evs = <<>> THEN <<>>
    ELSE LET fresh ==
                SelectSeq(<<1, 2>>, LAMBDA d :
                    d \notin known /\ display_entries(Head(evs))[d].ocr_text # <<>>)
         IN  fresh \o display_order(Tail(evs), known \cup {fresh[k] : k \in DOMAIN fresh})

\* the keys of _sent_counts of display d, one per observation and sentence
\* (the sentences of one text are distinct, so norm_set drops none)
RECURSIVE sent_items(_, _)
sent_items(evs, d) ==
    IF evs = <<>> THEN <<>>
    ELSE display_entries(Head(evs))[d].ocr_text \o sent_items(Tail(evs), d)

first_n(items, n) == SubSeq(items, 1, IF Len(items) < n THEN Len(items) ELSE n)

\* display_entry["common_texts"]: the frequent sentences in most_common()
\* order, `common_texts[:20]`
common_texts_of(evs, d) ==
    first_n(SelectSeq(most_common(sent_items(evs, d), Len(sent_items(evs, d))),
                      LAMBDA s : s \in freq_norms(evs, d)),
            CommonCap)

already_counted_mut(seen, key) == <<key[1], key[2]>> \in seen

\* `if key in seen: continue`
already_counted(seen, key) == key \in seen

\* `for text in common_texts`, for one row of display d; the Segment's id is 1
RECURSIVE count_texts(_, _, _)
count_texts(texts, d, bucket) ==
    IF texts = <<>> THEN bucket
    ELSE LET norm == Head(texts)
             key == <<1, d, norm>>
         IN  IF already_counted(bucket.seen, key)
             THEN count_texts(Tail(texts), d, bucket)
             ELSE count_texts(Tail(texts), d,
                     [seen |-> bucket.seen \cup {key},
                      order |-> IF \E k \in DOMAIN bucket.order : bucket.order[k] = norm
                                THEN bucket.order
                                ELSE Append(bucket.order, norm),
                      common_counts |->
                          [bucket.common_counts EXCEPT ![norm] = @ + 1]])

\* `for ev in disp.get("events")`: every row counts the display's common texts
RECURSIVE count_rows(_, _, _, _)
count_rows(n, texts, d, bucket) ==
    IF n = 0 THEN bucket
    ELSE count_rows(n - 1, texts, d, count_texts(texts, d, bucket))

\* `for disp in seg.get("ocr_by_display")`
RECURSIVE count_displays(_, _, _)
count_displays(evs, displays, bucket) ==
    IF displays = <<>> THEN bucket
    ELSE LET d == Head(displays)
             rows == events_out(evs, d, freq_norms(evs, d), {})
         IN  count_displays(evs, Tail(displays),
                 count_rows(Len(rows), common_texts_of(evs, d), d, bucket))

hour_bucket(evs) ==
    count_displays(evs, display_order(evs, {}),
        [seen |-> {}, order |-> <<>>, common_counts |-> [s \in Sentences |-> 0]])

\* key=lambda kv: (-kv[1], -len(sample)): does x sort strictly before y
common_before(counts, x, y) ==
    \/ counts[x] > counts[y]
    \/ counts[x] = counts[y] /\ Len(x) > Len(y)

\* common_items.sort(...): stable, equal keys keep their insertion order
RECURSIVE sort_common(_, _)
sort_common(items, counts) ==
    IF items = <<>> THEN <<>>
    ELSE LET rest == sort_common(Tail(items), counts)
             x == Head(items)
             ahead == Cardinality({k \in DOMAIN rest : common_before(counts, rest[k], x)})
         IN  SubSeq(rest, 1, ahead) \o <<x>> \o SubSeq(rest, ahead + 1, Len(rest))

\* hour_common_texts, `hour_common_texts[:20]`
hour_common_texts(evs) ==
    first_n(sort_common(hour_bucket(evs).order, hour_bucket(evs).common_counts),
            CommonCap)

TlInit ==
    /\ tl_events \in {<<>>, WideExample}
    /\ tl_pc = "input"
    /\ tl_timeline = <<>>
    /\ tl_common = NoCommon
    /\ OnlyTl

AppendObs ==
    /\ tl_pc = "input"
    /\ Len(tl_events) < MaxObs
    /\ \E o \in ObsValues :
          tl_events' = Append(tl_events, [o EXCEPT !.id = Len(tl_events) + 1])
    /\ UNCHANGED <<tl_pc, tl_timeline, tl_common>>
    /\ UNCHANGED beside_tl

BuildTimeline ==
    /\ tl_pc = "input"
    /\ tl_timeline' = cluster_active_timeline(tl_events)
    /\ tl_common' = [common_counts |-> hour_bucket(tl_events).common_counts,
                     hour_common_texts |-> hour_common_texts(tl_events)]
    /\ tl_pc' = "built"
    /\ UNCHANGED tl_events
    /\ UNCHANGED beside_tl

TlNext == AppendObs \/ BuildTimeline

TimelineSpec == TlInit /\ [][TlNext]_vars

(***************************************************************************)
(* run_daily_automation (daily_runner.py).  A date is a day number; the    *)
(* pending list is the set of the items of daily_pending.json; dr_docs     *)
(* says, per date, whether the latest document under out/<date>/ is        *)
(* missing ("none"), carries the incomplete marker ("incomplete") or does  *)
(* not ("complete").  Between runs time passes and the user may run        *)
(* `everlog summarize` on a date (cli.py:99-100).  The days modelled are   *)
(* within the retention period of out/.                                    *)
(***************************************************************************)
NightlyHour == 23               \* now.hour == 23

NightlyMinute == 55             \* now.minute >= 55

Dates == 0..MaxDays

ClockValues == {600, 1434, 1435}    \* 10:00, 23:54, 23:55

Outcomes == {"raised", "incomplete", "complete"}

PendingDates(items) == {it.date : it \in items}

\* _is_summary_complete_for_date: a latest document without the marker
is_summary_complete_for_date(docs, date) == docs[date] = "complete"

should_run_today_mut(now) == now \div 60 = NightlyHour

should_run_today(now) ==
    now \div 60 = NightlyHour /\ now % 60 >= NightlyMinute

\* sorted(pending.keys())
RECURSIVE sorted_dates(_)
sorted_dates(S) ==
    IF S = {} THEN <<>>
    ELSE LET first == CHOOSE d \in S : \A e \in S : d <= e
         IN  <<first>> \o sorted_dates(S \ {first})

daily_queue(items, docs, today, now) ==
    sorted_dates(PendingDates(items))
    \o (IF ~is_summary_complete_for_date(docs, today - 1)
          THEN <<today - 1>> ELSE <<>>)
    \o (IF should_run_today(now) THEN <<today>> ELSE <<>>)

\* preserve order, unique
RECURSIVE ordered_unique(_, _)
ordered_unique(queue, seen) ==
    IF queue = <<>> THEN <<>>
    ELSE IF Head(queue) \in seen THEN ordered_unique(Tail(queue), seen)
    ELSE <<Head(queue)>> \o
         ordered_unique(Tail(queue), seen \cup {Head(queue)})

retry_count_of(items, date) ==
    IF date \in PendingDates(items)
    THEN (CHOOSE it \in items : it.date = date).retry_count
    ELSE 0

clear_pending(items, date) == {it \in items : it.date # date}

mark_pending_mut(items, date) ==
    clear_pending(items, date) \cup {[date |-> date, retry_count |-> 1]}

\* retry_count = prev.retry_count + 1 if prev else 1
mark_pending(items, date) ==
    clear_pending(items, date)
       \cup {[date |-> date, retry_count |-> retry_count_of(items, date) + 1]}

\* the loop `for date in ordered`; outcome[date] is what
\* summarize_day_to_markdown(date) does when it is called
RECURSIVE process_dates(_, _, _)
process_dates(ordered, st, outcome) ==
    IF ordered = <<>> THEN st
    ELSE LET date == Head(ordered)
             out == outcome[date]
             tried == Append(st.attempts, [date |-> date, outcome |-> out])
         IN  IF is_summary_complete_for_date(st.docs, date)
             THEN process_dates(Tail(ordered),
                     [st EXCEPT !.pending = clear_pending(st.pending, date)],
                     outcome)
             ELSE IF out = "raised"
             THEN process_dates(Tail(ordered),
                     [st EXCEPT !.pending = mark_pending(st.pending, date),
                                !.attempts = tried],
                     outcome)
             ELSE IF out = "incomplete"
             THEN process_dates(Tail(ordered),
                     [st EXCEPT !.pending = mark_pending(st.pending, date),
                                !.docs[date] = "incomplete",
                                !.attempts = tried],
                     outcome)
             ELSE process_dates(Tail(ordered),
                     [st EXCEPT !.pending = clear_pending(st.pending, date),
                                !.docs[date] = "complete",
                                !.attempts = tried],
                     outcome)

\* run_daily_automation: the pending list it saves, the documents it leaves
\* and the summarize attempts it made
run_daily_automation(items, docs, today, now, outcome) ==
    process_dates(ordered_unique(daily_queue(items, docs, today, now), {}),
                  [pending |-> items, docs |-> docs, attempts |-> <<>>],
                  outcome)

DrInit ==
    /\ dr_today = 1
    /\ dr_now \in ClockValues
    /\ dr_pending = {}
    /\ dr_docs = [d \in Dates |-> "none"]
    /\ dr_runs = 0
    /\ dr_last = NoRun
    /\ OnlyDr

TimePasses ==
    /\ \/ /\ dr_now' \in {c \in ClockValues : c > dr_now}
          /\ dr_today' = dr_today
       \/ /\ dr_today < MaxDays
          /\ dr_today' = dr_today + 1
          /\ dr_now' \in ClockValues
    /\ dr_last' = NoRun
    /\ UNCHANGED <<dr_pending, dr_docs, dr_runs>>
    /\ UNCHANGED beside_dr

\* `everlog summarize --date d` by hand
ManualSummarize ==
    /\ \E d \in 0..dr_today, out \in {"incomplete", "complete"} :
          /\ dr_docs[d] # out
          /\ dr_docs' = [dr_docs EXCEPT ![d] = out]
    /\ dr_last' = NoRun
    /\ UNCHANGED <<dr_today, dr_now, dr_pending, dr_runs>>
    /\ UNCHANGED beside_dr

RunDaily ==
    /\ dr_runs < MaxRuns
    /\ dr_runs' = dr_runs + 1
    /\ \E outcome \in [Dates -> Outcomes] :
          LET res == run_daily_automation(dr_pending, dr_docs, dr_today,
                                          dr_now, outcome)
          IN  /\ dr_pending' = res.pending
              /\ dr_docs' = res.docs
              /\ dr_last' = [ran |-> TRUE, pending_before |-> dr_pending,
                             docs_before |-> dr_docs,
                             attempts |-> res.attempts]
    /\ UNCHANGED <<dr_today, dr_now>>
    /\ UNCHANGED beside_dr

DrNext == TimePasses \/ ManualSummarize \/ RunDaily

DailySpec == DrInit /\ [][DrNext]_vars

(***************************************************************************)
(* _maybe_run_hourly_llm and _build_hourly_llm_input (summarize.py) as     *)
(* the environment configures them.  An hour is its position in the list   *)
(* of Hour Packs, which is in hour order, so comparing positions is        *)
(* comparing hour_start_ts.                                                *)
(***************************************************************************)
MaxPacks == 3

HourlyPackValues ==
    { [active_sec_est |-> 60, has_cluster |-> TRUE, has_common |-> FALSE],
      [active_sec_est |-> 120, has_cluster |-> TRUE, has_common |-> FALSE],
      [active_sec_est |-> 600, has_cluster |-> TRUE, has_common |-> FALSE],
      [active_sec_est |-> 600, has_cluster |-> FALSE, has_common |-> TRUE],
      [active_sec_est |-> 600, has_cluster |-> FALSE, has_common |-> FALSE],
      [active_sec_est |-> 900, has_cluster |-> TRUE, has_common |-> TRUE] }

\* _hourly_llm_enabled, _hourly_llm_min_sec, _hourly_llm_max_hours
HourlyEnvs ==
    [enabled : BOOLEAN, min_sec : {HourlyMinSec, 600},
     max_hours : {0, 1, 2, HourlyMaxHours}]

\* eligible = [h for h in hour_packs if active_sec_est >= min_sec]
eligible_hours(packs, min_sec) ==
    SelectSeq([i \in DOMAIN packs |-> i],
              LAMBDA i : packs[i].active_sec_est >= min_sec)

hour_before_mut(packs, i, j) == i < j

\* key=lambda h: (-active_sec_est, hour_start_ts): does hour i sort before j
hour_before(packs, i, j) ==
    \/ packs[i].active_sec_est > packs[j].active_sec_est
    \/ packs[i].active_sec_est = packs[j].active_sec_est /\ i < j

\* sorted(eligible, key=(-active_sec_est, hour_start_ts))
RECURSIVE sort_by_active(_, _)
sort_by_active(hours, packs) ==
    IF hours = <<>> THEN <<>>
    ELSE LET rest == sort_by_active(Tail(hours), packs)
             ahead == Cardinality({k \in DOMAIN rest :
                          hour_before(packs, rest[k], Head(hours))})
         IN  SubSeq(rest, 1, ahead) \o <<Head(hours)>>
             \o SubSeq(rest, ahead + 1, Len(rest))

\* sorted(eligible, key=hour_start_ts)
RECURSIVE sort_by_hour(_)
sort_by_hour(hours) ==
    IF hours = <<>> THEN <<>>
    ELSE LET rest == sort_by_hour(Tail(hours))
             ahead == Cardinality({k \in DOMAIN rest : rest[k] < Head(hours)})
         IN  SubSeq(rest, 1, ahead) \o <<Head(hours)>>
             \o SubSeq(rest, ahead + 1, Len(rest))

\* `if max_hours > 0 and len(eligible) > max_hours`
keep_hours(eligible, packs, max_hours) ==
    IF max_hours > 0 /\ Len(eligible) > max_hours
    THEN sort_by_hour(SubSeq(sort_by_active(eligible, packs), 1, max_hours))
    ELSE eligible

\* _build_hourly_llm_input: an hour with no cluster and no common text is
\* left out
build_hourly_llm_input(hours, packs) ==
    SelectSeq(hours, LAMBDA i : packs[i].has_cluster \/ packs[i].has_common)

\* _maybe_run_hourly_llm up to its call of analyze_hour_blocks
run_hourly_llm(env, packs) ==
    LET eligible == eligible_hours(packs, env.min_sec)
        kept == keep_hours(eligible, packs, env.max_hours)
        payload == build_hourly_llm_input(kept, packs)
    IN  IF ~env.enabled \/ eligible = <<>>
        THEN [eligible |-> <<>>, payload |-> <<>>, called |-> FALSE]
        ELSE [eligible |-> kept, payload |-> payload,
              called |-> payload # <<>>]

HlInit ==
    /\ hl_packs = <<>>
    /\ hl_env \in HourlyEnvs
    /\ hl_pc = "input"
    /\ hl_eligible = <<>>
    /\ hl_payload = <<>>
    /\ hl_called = FALSE
    /\ OnlyHl

AppendPack ==
    /\ hl_pc = "input"
    /\ Len(hl_packs) < MaxPacks
    /\ \E p \in HourlyPackValues : hl_packs' = Append(hl_packs, p)
    /\ UNCHANGED <<hl_env, hl_pc, hl_eligible, hl_payload, hl_called>>
    /\ UNCHANGED beside_hl

MaybeRunHourlyLlm ==
    /\ hl_pc = "input"
    /\ hl_eligible' = run_hourly_llm(hl_env, hl_packs).eligible
    /\ hl_payload' = run_hourly_llm(hl_env, hl_packs).payload
    /\ hl_called' = run_hourly_llm(hl_env, hl_packs).called
    /\ hl_pc' = "done"
    /\ UNCHANGED <<hl_packs, hl_env>>
    /\ UNCHANGED beside_hl

HlNext == AppendPack \/ MaybeRunHourlyLlm

HourlySpec == HlInit /\ [][HlNext]_vars

(***************************************************************************)
(* The timeline entry of one hour (summarize_day_to_markdown) and          *)
(* _is_near_duplicate (summarize.py).  A text is the sequence of its       *)
(* characters, as _safe returned it.                                       *)
(***************************************************************************)
MaxChars == 3

SummaryChars == {"a", "B", " ", "."}

LongSummary ==
    <<"R", "e", "f", "a", "c", "t", "o", "r", " ", "p", "a", "r", "s", "e",
      "r", ".">>

SameAsLong ==
    <<"r", "e", "f", "a", "c", "t", "o", "r", "-", "p", "a", "r", "s", "e",
      "r">>

HoldsLong ==
    <<"n", "o", "w", " ", "r", "e", "f", "a", "c", "t", "o", "r", " ", "p",
      "a", "r", "s", "e", "r">>

CloseToLong ==
    <<"r", "e", "f", "a", "c", "t", "o", "r", " ", "p", "a", "r", "s", "e",
      "d">>

Unrelated ==
    <<"w", "r", "i", "t", "e", " ", "d", "o", "c", "s">>

EnrichTexts ==
    { <<>>, <<"a", "b">>, <<"A", " ", "b", "!">>, <<".", ".">>, <<" ">>,
      SameAsLong, HoldsLong, CloseToLong, Unrelated }

HourValues ==
    [hour_title : {<<>>, <<"T">>}, hour_summary : {<<>>, LongSummary},
     labels : {<<>>, <<"Editor">>}, observation : {<<>>, <<"a", "b">>}]

\* str.strip()
RECURSIVE lstrip(_)
lstrip(t) == IF t # <<>> /\ Head(t) = " " THEN lstrip(Tail(t)) ELSE t

RECURSIVE rstrip(_)
rstrip(t) ==
    IF t # <<>> /\ t[Len(t)] = " " THEN rstrip(SubSeq(t, 1, Len(t) - 1)) ELSE t

strip(t) == rstrip(lstrip(t))

\* str.lower() on the letters in use
lower(c) ==
    CASE c = "A" -> "a" [] c = "B" -> "b" [] c = "R" -> "r" [] OTHER -> c

\* the characters of _SIMILARITY_STRIP_RE in use
SimilarityStrip == {" ", ".", ",", "!", "?", ":", ";", "-", "/"}

\* _normalize_for_similarity
normalize_for_similarity(t) ==
    SelectSeq([k \in DOMAIN strip(t) |-> lower(strip(t)[k])],
              LAMBDA c : c \notin SimilarityStrip)

\* `na in nb`
is_substring(na, nb) ==
    \E i \in 0..(Len(nb) - Len(na)) : SubSeq(nb, i + 1, i + Len(na)) = na

\* SequenceMatcher.find_longest_match within a[alo..ahi], b[blo..bhi]:
\* the longest block, the earliest in a, then the earliest in b
matching_blocks_in(a, b, alo, ahi, blo, bhi) ==
    {m \in (alo..ahi) \X (blo..bhi) \X (1..Len(a)) :
        /\ m[1] + m[3] - 1 <= ahi
        /\ m[2] + m[3] - 1 <= bhi
        /\ \A t \in 0..(m[3] - 1) : a[m[1] + t] = b[m[2] + t]}

find_longest_match(a, b, alo, ahi, blo, bhi) ==
    LET blocks == matching_blocks_in(a, b, alo, ahi, blo, bhi)
    IN  CHOOSE m \in blocks :
            \A o \in blocks :
                \/ m[3] > o[3]
                \/ m[3] = o[3] /\ m[1] < o[1]
                \/ m[3] = o[3] /\ m[1] = o[1] /\ m[2] <= o[2]

\* the characters in SequenceMatcher.get_matching_blocks()
RECURSIVE matched_chars(_, _, _, _, _, _)
matched_chars(a, b, alo, ahi, blo, bhi) ==
    IF matching_blocks_in(a, b, alo, ahi, blo, bhi) = {} THEN 0
    ELSE LET m == find_longest_match(a, b, alo, ahi, blo, bhi)
         IN  m[3]
             + matched_chars(a, b, alo, m[1] - 1, blo, m[2] - 1)
             + matched_chars(a, b, m[1] + m[3], ahi, m[2] + m[3], bhi)

\* SequenceMatcher(None, na, nb).ratio() >= 0.88, ratio = 2.0 * M / T
ratio_at_least(na, nb) ==
    2 * matched_chars(na, nb, 1, Len(na), 1, Len(nb)) * 100
        >= SimilarityPercent * (Len(na) + Len(nb))

is_near_duplicate_mut(a, b) == FALSE

\* _is_near_duplicate
is_near_duplicate(a, b) ==
    LET na == normalize_for_similarity(a)
        nb == normalize_for_similarity(b)
    IN  IF na = <<>> \/ nb = <<>> THEN FALSE
        ELSE IF na = nb THEN TRUE
        ELSE IF Len(na) >= SubstringMinLen
                /\ (is_substring(na, nb) \/ is_substring(nb, na))
        THEN TRUE
        ELSE ratio_at_least(na, nb)

\* display_title: hour_llm > cluster_labels > unknown
hour_display_title(h) ==
    IF strip(h.hour_title) # <<>> THEN strip(h.hour_title)
    ELSE IF h.labels # <<>> THEN <<h.labels[1]>>
    ELSE <<"unknown">>

\* display_summary: hour_llm > observation
hour_display_summary(h) ==
    IF strip(h.hour_summary) # <<>> THEN strip(h.hour_summary)
    ELSE h.observation

intent_line_mut(summary, enriched) ==
    IF enriched = <<>> THEN <<>>
    ELSE <<[kind |-> "summary", text |-> enriched]>>

\* `if hour_summary_enriched:` the added line, or the note that it was left out
intent_line(summary, enriched) ==
    IF enriched = <<>> THEN <<>>
    ELSE IF is_near_duplicate(summary, enriched)
    THEN <<[kind |-> "intent_omitted", text |-> <<>>]>>
    ELSE <<[kind |-> "intent", text |-> enriched]>>

\* the lines of one hour of the timeline
timeline_entry(h, enrich) ==
    <<[kind |-> "title", text |-> hour_display_title(h)]>>
    \o (IF hour_display_summary(h) # <<>>
        THEN <<[kind |-> "summary", text |-> hour_display_summary(h)]>>
        ELSE <<>>)
    \o (IF h.labels # <<>>
        THEN <<[kind |-> "screens", text |-> h.labels]>>
        ELSE <<>>)
    \o intent_line(hour_display_summary(h), strip(enrich))
    \o <<[kind |-> "blank", text |-> <<>>]>>

HrInit ==
    /\ hr_hour \in HourValues
    /\ hr_enrich \in EnrichTexts
    /\ hr_pc = "input"
    /\ hr_lines = <<>>
    /\ OnlyHr

\* the hour narrative's summary, one character more
AppendChar ==
    /\ hr_pc = "input"
    /\ Len(hr_hour.hour_summary) < MaxChars
    /\ \E c \in SummaryChars :
          hr_hour' = [hr_hour EXCEPT !.hour_summary = Append(@, c)]
    /\ UNCHANGED <<hr_enrich, hr_pc, hr_lines>>
    /\ UNCHANGED beside_hr

RenderHour ==
    /\ hr_pc = "input"
    /\ hr_lines' = timeline_entry(hr_hour, hr_enrich)
    /\ hr_pc' = "rendered"
    /\ UNCHANGED <<hr_hour, hr_enrich>>
    /\ UNCHANGED beside_hr

HrNext == AppendChar \/ RenderHour

RenderSpec == HrInit /\ [][HrNext]_vars

(***************************************************************************)
(* build_segments_with_event_trace (segments.py): the fold of              *)
(* build_segments, one trace record per folded observation, and the        *)
(* segment_id looked up by event id afterwards.  The id of a record is the *)
(* string str(e.get("id") or ""): empty when the record holds no id.  A    *)
(* segment_id is <<>> (None) or <<i>>.                                     *)
(***************************************************************************)
TracedIds == {"", "e1", "e2"}

TracedValues ==
    [id : TracedIds, ts_ok : {TRUE}, ts : {0, 1800}, interval_sec : {300},
     key : Keys, excluded : {FALSE}, error : {FALSE}]
    \cup [id : {"e1"}, ts_ok : {TRUE}, ts : {0}, interval_sec : {300},
          key : {"Editor"}, excluded : {TRUE}, error : {FALSE}]

\* seg_id_by_event[eid] = i for every non-empty eid of segs[i], in order:
\* the last Segment listing the id wins; .get(eid) is None for an unknown id
seg_id_by_event_get(segs, eid) ==
    LET holding == {i \in 1..Len(segs) :
                      /\ eid # ""
                      /\ \E k \in DOMAIN segs[i].event_ids :
                            segs[i].event_ids[k] = eid}
    IN  IF holding = {} THEN <<>>
        ELSE <<(CHOOSE i \in holding : \A j \in holding : j <= i) - 1>>

\* event_traces: one record per folded observation, in the fold's order
labeled_event_traces(evs, d) ==
    [p \in 1..Len(valid_sorted(evs)) |->
        [event_id |-> valid_sorted(evs)[p].id,
         ts |-> valid_sorted(evs)[p].ts,
         segment_key |-> valid_sorted(evs)[p].key,
         segment_id |->
            seg_id_by_event_get(fold_segs(evs, d), valid_sorted(evs)[p].id)]]

TrInit ==
    /\ tr_events = <<>>
    /\ tr_pc = "input"
    /\ tr_segs = <<>>
    /\ tr_trace = <<>>
    /\ OnlyTr

AppendRecord ==
    /\ tr_pc = "input"
    /\ Len(tr_events) < MaxEvents
    /\ \E e \in TracedValues : tr_events' = Append(tr_events, e)
    /\ UNCHANGED <<tr_pc, tr_segs, tr_trace>>
    /\ UNCHANGED beside_tr

BuildSegmentsWithEventTrace ==
    /\ tr_pc = "input"
    /\ tr_segs' = fold_segs(tr_events, FallbackIntervalSec)
    /\ tr_trace' = labeled_event_traces(tr_events, FallbackIntervalSec)
    /\ tr_pc' = "done"
    /\ UNCHANGED tr_events
    /\ UNCHANGED beside_tr

TrNext == AppendRecord \/ BuildSegmentsWithEventTrace

TraceSpec == TrInit /\ [][TrNext]_vars

(***************************************************************************)
(* make_run_id (timeutil.py) in one process, and the artifact directory    *)
(* out/<date>/<run_id> summarize_day_to_markdown derives from it.  The      *)
(* clock is a day number and a minute of the day; a run-id is the triple   *)
(* of the hour, the minute and the base-36 digits of the sequence number.  *)
(***************************************************************************)
MaxCalls == 3

RunMinutes == {1434, 1435}

\* _to_base36: the digits of n, most significant first
RECURSIVE to_base36(_)
to_base36(n) ==
    IF n <= 0 THEN <<0>>
    ELSE IF n < 36 THEN <<n>>
    ELSE to_base36(n \div 36) \o <<n % 36>>

\* dt.strftime("%Y%m%d%H%M")
minute_key(now) == <<now.day, now.minute>>

\* _RUN_ID_SEQ after the call
next_seq(known, seq, now) ==
    IF known # <<minute_key(now)>> THEN 1 ELSE seq + 1

\* f"{hour}-{minute}-{seq}"
run_id(now, seq) == <<now.minute \div 60, now.minute % 60, to_base36(seq)>>

RidInit ==
    /\ rid_now \in [day : {0}, minute : RunMinutes]
    /\ rid_minute = <<>>
    /\ rid_seq = 0
    /\ rid_issued = <<>>
    /\ OnlyRid

\* the clock moves on, within the day or to a later day
ClockMoves ==
    /\ \E later \in [day : 0..MaxDays, minute : RunMinutes] :
          /\ \/ later.day > rid_now.day
             \/ later.day = rid_now.day /\ later.minute > rid_now.minute
          /\ rid_now' = later
    /\ UNCHANGED <<rid_minute, rid_seq, rid_issued>>
    /\ UNCHANGED beside_rid

\* summarize_day_to_markdown(date) without an explicit run-id
MakeRunId ==
    /\ Len(rid_issued) < MaxCalls
    /\ \E date \in 0..rid_now.day :
          rid_issued' =
             Append(rid_issued,
                    [date |-> date,
                     run_id |-> run_id(rid_now,
                                       next_seq(rid_minute, rid_seq, rid_now))])
    /\ rid_seq' = next_seq(rid_minute, rid_seq, rid_now)
    /\ rid_minute' = <<minute_key(rid_now)>>
    /\ UNCHANGED rid_now
    /\ UNCHANGED beside_rid

RidNext == ClockMoves \/ MakeRunId

RunIdSpec == RidInit /\ [][RidNext]_vars

(***************************************************************************)
(* The Clusters of one Hour Pack (_build_hour_packs, summarize.py).  A row *)
(* is one observation as a display of its Segment shows it: its event id   *)
(* (its position), its segment key, its interval and whether the display   *)
(* is the active one.  Every row carries text, as _build_segment_groups    *)
(* writes no row without it.                                               *)
(***************************************************************************)
MaxAdded == 2

\* the segment keys, in the order of their labels
ClusterKeys == <<"Browser", "Editor", "Mail", "Terminal">>

RowValues ==
    [key : {ClusterKeys[k] : k \in DOMAIN ClusterKeys},
     interval_sec : {60, 300}, is_active_display : {TRUE}]
    \cup {[key |-> "Editor", interval_sec |-> 300, is_active_display |-> FALSE]}

ClusterRow(key, interval) ==
    [key |-> key, interval_sec |-> interval, is_active_display |-> TRUE]

ClusterExamples ==
    { <<ClusterRow("Browser", 300), ClusterRow("Editor", 300),
        ClusterRow("Mail", 60)>>,
      <<ClusterRow("Browser", 60), ClusterRow("Editor", 300),
        ClusterRow("Terminal", 300)>>,
      <<ClusterRow("Editor", 300), ClusterRow("Editor", 60),
        ClusterRow("Mail", 300)>> }

NoCluster == [exists |-> FALSE, active_event_ids |-> {}, active_sec |-> 0]

\* the loop over the rows of the hour, from row number eid on
RECURSIVE hour_clusters(_, _, _)
hour_clusters(rows, eid, clusters) ==
    IF eid > Len(rows) THEN clusters
    ELSE LET ev == rows[eid]
             cluster == clusters[ev.key]
         IN  IF ~ev.is_active_display
             THEN hour_clusters(rows, eid + 1, clusters)
             ELSE IF eid \in cluster.active_event_ids
             THEN hour_clusters(rows, eid + 1,
                      [clusters EXCEPT ![ev.key].exists = TRUE])
             ELSE hour_clusters(rows, eid + 1,
                      [clusters EXCEPT ![ev.key] =
                          [exists |-> TRUE,
                           active_event_ids |-> cluster.active_event_ids \cup {eid},
                           active_sec |-> cluster.active_sec + ev.interval_sec]])

cluster_before_mut(clusters, x, y) == x < y

\* key=lambda c: (-active_sec, label): does the cluster of key number x sort
\* before the one of key number y
cluster_before(clusters, x, y) ==
    \/ clusters[ClusterKeys[x]].active_sec > clusters[ClusterKeys[y]].active_sec
    \/ /\ clusters[ClusterKeys[x]].active_sec = clusters[ClusterKeys[y]].active_sec
       /\ x < y

\* clusters_sorted: the key numbers of the clusters in sorted order
clusters_sorted(clusters) ==
    LET keys == {k \in DOMAIN ClusterKeys : clusters[ClusterKeys[k]].exists}
        rank(k) == Cardinality({o \in keys : cluster_before(clusters, o, k)})
    IN  [p \in 1..Cardinality(keys) |-> CHOOSE k \in keys : rank(k) = p - 1]

\* `for cluster in clusters_sorted[:3]`
clusters_out(clusters) ==
    [p \in 1..(IF Len(clusters_sorted(clusters)) < ClusterCap
               THEN Len(clusters_sorted(clusters)) ELSE ClusterCap) |->
        ClusterKeys[clusters_sorted(clusters)[p]]]

ClInit ==
    /\ cl_events \in ClusterExamples
    /\ cl_pc = "input"
    /\ cl_bucket = << >>
    /\ cl_clusters = <<>>
    /\ OnlyCl

AppendRow ==
    /\ cl_pc = "input"
    /\ Len(cl_events) < 3 + MaxAdded
    /\ \E r \in RowValues : cl_events' = Append(cl_events, r)
    /\ UNCHANGED <<cl_pc, cl_bucket, cl_clusters>>
    /\ UNCHANGED beside_cl

BuildHourPack ==
    /\ cl_pc = "input"
    /\ cl_bucket' =
          hour_clusters(cl_events, 1,
              [k \in {ClusterKeys[i] : i \in DOMAIN ClusterKeys} |-> NoCluster])
    /\ cl_clusters' = clusters_out(cl_bucket')
    /\ cl_pc' = "packed"
    /\ UNCHANGED cl_events
    /\ UNCHANGED beside_cl

ClNext == AppendRow \/ BuildHourPack

ClusterSpec == ClInit /\ [][ClNext]_vars

(***************************************************************************)
(* The per-segment label file: written by enrich_day_with_llm (enrich.py), *)
(* loaded by summarize_day_to_markdown through _load_llm_map               *)
(* (summarize.py).  A path is the sequence of its components under the log *)
(* home; the file name <date>.llm.json is the pair of the date and its     *)
(* suffix.  A file's content is the set of segment ids it labels.          *)
(***************************************************************************)
LabelRunIds == {"9-00-1", "manual"}

LabelSets == SUBSET {0, 1}

\* _day_paths(date)[1]: p.out_dir / f"{date}.llm.json"
day_paths(date) == <<"out", <<date, "llm.json">>>>

\* _llm_path(date, run_id): p.out_dir / date / rid / f"{date}.llm.json"
llm_path(date, rid) == <<"out", date, rid, <<date, "llm.json">>>>

\* out_path.write_text(...): the file is created or replaced
write_file(fs, path, labels) ==
    {f \in fs : f.path # path} \cup {[path |-> path, labels |-> labels]}

\* _load_llm_map: {} when the path does not exist
load_llm_map(fs, date, rid) ==
    IF \E f \in fs : f.path = llm_path(date, rid)
    THEN (CHOOSE f \in fs : f.path = llm_path(date, rid)).labels
    ELSE {}

LbInit ==
    /\ lb_files = {}
    /\ lb_env \in [use_segment_llm : BOOLEAN, run_id : LabelRunIds]
    /\ lb_pc = "ready"
    /\ lb_date = 0
    /\ lb_llm_map = {}
    /\ OnlyLb

\* enrich_day_with_llm(date): analyze_segments labelled these segments
EnrichDayWithLlm ==
    /\ lb_pc = "ready"
    /\ \E date \in 0..MaxDays, labels \in LabelSets :
          lb_files' = write_file(lb_files, day_paths(date), labels)
    /\ UNCHANGED <<lb_env, lb_pc, lb_date, lb_llm_map>>
    /\ UNCHANGED beside_lb

\* summarize_day_to_markdown(date), up to `llm_map = ...`
SummarizeWithLabels ==
    /\ lb_pc = "ready"
    /\ \E date \in 0..MaxDays :
          /\ lb_date' = date
          /\ lb_llm_map' = IF lb_env.use_segment_llm
                           THEN load_llm_map(lb_files, date, lb_env.run_id)
                           ELSE {}
    /\ lb_pc' = "summarized"
    /\ UNCHANGED <<lb_files, lb_env>>
    /\ UNCHANGED beside_lb

LbNext == EnrichDayWithLlm \/ SummarizeWithLabels

LabelSpec == LbInit /\ [][LbNext]_vars

(***************************************************************************)
(* The fold as a state machine: the log grows by appended observations     *)
(* (jsonl.append_jsonl), then the fold is applied to it.                   *)
(***************************************************************************)
SegInit ==
    /\ \/ events = <<>> /\ default_interval_sec \in DefaultValues
       \/ events \in {Example3, Example4} /\ default_interval_sec = 300
    /\ seg_pc = "input"
    /\ segments = <<>>
    /\ segs_raw = <<>>
    /\ OnlySeg

AppendObservation ==
    /\ seg_pc = "input"
    /\ Len(events) < MaxEvents
    /\ \E raw \in EventValues :
          events' = Append(events, WithId(raw, Len(events) + 1))
    /\ UNCHANGED <<default_interval_sec, seg_pc, segments, segs_raw>>
    /\ UNCHANGED beside_seg

BuildSegments ==
    /\ seg_pc = "input"
    /\ segments' = build_segments(events, default_interval_sec)
    /\ segs_raw' = fold_segs(events, default_interval_sec)
    /\ seg_pc' = "done"
    /\ UNCHANGED <<events, default_interval_sec>>
    /\ UNCHANGED beside_seg

SegNext == AppendObservation \/ BuildSegments

SegSpec == SegInit /\ [][SegNext]_vars

(***************************************************************************)
(* Properties of the segment fold.                                         *)
(***************************************************************************)
SeqToSet(s) == { s[k] : k \in 1..Len(s) }

EventById(id) == events[id]

\* the observations the fold consumes, in time order
Folded == valid_sorted(events)

FoldedIds == { Folded[p].id : p \in 1..Len(Folded) }

\* the indexes of the raw segments that list observation id
SegsHolding(id) == { i \in 1..Len(segs_raw) : id \in SeqToSet(segs_raw[i].event_ids) }

SegOf(id) == CHOOSE i \in 1..Len(segs_raw) : id \in SeqToSet(segs_raw[i].event_ids)

PosInFold(id) == CHOOSE p \in 1..Len(Folded) : Folded[p].id = id

RECURSIVE SumCaptures(_)
SumCaptures(ss) == IF ss = <<>> THEN 0 ELSE Head(ss).captures + SumCaptures(Tail(ss))

RECURSIVE SumDur(_, _)
SumDur(ids, interval) ==
    IF ids = <<>> THEN 0
    ELSE (IF EventById(Head(ids)).interval_sec = 0 THEN interval
          ELSE EventById(Head(ids)).interval_sec) + SumDur(Tail(ids), interval)

\* the interval the fold falls back to, stated without the fold's operators
FoldDefault == IF default_interval_sec = 0 THEN 300 ELSE default_interval_sec

OwnOrDefault(e) == IF e.interval_sec = 0 THEN FoldDefault ELSE e.interval_sec

\* C1: every non-excluded, non-errored observation with a parseable timestamp
\* is counted in exactly one Segment (and once), no other observation is
\* counted, and the Segments carry the ids 0..n-1 in the order in which their
\* first observations appear in time order.
C1_EachObservationInOneSegment ==
    seg_pc = "done" =>
        /\ \A e \in SeqToSet(events) :
              IF (~e.excluded) /\ (~e.error) /\ e.ts_ok
              THEN Cardinality(SegsHolding(e.id)) = 1
              ELSE SegsHolding(e.id) = {}
        /\ Len(segments) = Len(segs_raw)
        /\ \A i \in 1..Len(segs_raw) :
              /\ segments[i].segment_id = i - 1
              /\ segments[i].captures = Len(segs_raw[i].event_ids)
              /\ Cardinality(SeqToSet(segs_raw[i].event_ids)) = Len(segs_raw[i].event_ids)
        /\ SumCaptures(segments) = Cardinality(FoldedIds)
        /\ \A i, j \in 1..Len(segs_raw) :
              i < j => PosInFold(segs_raw[i].event_ids[1]) < PosInFold(segs_raw[j].event_ids[1])

\* C1 witness: a fold over a list holding a skipped observation that returned
\* two Segments.
C1_Witness ==
    /\ seg_pc = "done"
    /\ Len(segments) = 2
    /\ \E e \in SeqToSet(events) : e.excluded \/ e.error \/ ~e.ts_ok

\* C2 (as stated): two consecutive same-key observations more than
\* max(120, 2.5 x interval) seconds apart, interval being the observations'
\* own effective interval, land in different Segments; a smaller gap keeps
\* them in the same Segment.
C2_GapByObservationInterval ==
    seg_pc = "done" =>
        \A p \in 1..(Len(Folded) - 1) :
            LET a == Folded[p]
                b == Folded[p + 1]
                gap == b.ts - a.ts
                iv == OwnOrDefault(a)
            IN  (a.key = b.key /\ OwnOrDefault(b) = iv) =>
                    /\ (2 * gap > Max(240, 5 * iv)) => SegOf(a.id) # SegOf(b.id)
                    /\ (2 * gap < Max(240, 5 * iv)) => SegOf(a.id) = SegOf(b.id)

\* C2 (amended): two consecutive same-key observations more than
\* max(120, 2.5 x D) seconds apart, D being the fold's default interval
\* (default_interval_sec, 300 when that is 0) whatever the observations' own
\* intervals, land in different Segments; a gap of at most that keeps them in
\* the same Segment.
C2_GapByFoldInterval ==
    seg_pc = "done" =>
        \A p \in 1..(Len(Folded) - 1) :
            LET a == Folded[p]
                b == Folded[p + 1]
                gap == b.ts - a.ts
            IN  a.key = b.key =>
                    IF 2 * gap > Max(240, 5 * FoldDefault)
                    THEN SegOf(a.id) # SegOf(b.id)
                    ELSE SegOf(a.id) = SegOf(b.id)

\* C2 witness: same-key neighbours with their own interval of 40 s under a
\* default of 300 s, 121 s apart (more than max(120, 100), less than 750),
\* folded into one Segment.
C2_Witness ==
    /\ seg_pc = "done"
    /\ FoldDefault = 300
    /\ \E p \in 1..(Len(Folded) - 1) :
          /\ Folded[p].key = Folded[p + 1].key
          /\ Folded[p].interval_sec = 40
          /\ Folded[p + 1].interval_sec = 40
          /\ Folded[p + 1].ts - Folded[p].ts = 121
          /\ SegOf(Folded[p].id) = SegOf(Folded[p + 1].id)

\* C3: every Segment has end_time >= start_time and a duration estimate of at
\* least the interval of its last contributing observation.
C3_EndAfterStartAndDuration ==
    seg_pc = "done" =>
        \A i \in 1..Len(segments) :
            LET ids == segs_raw[i].event_ids
                last == EventById(ids[Len(ids)])
            IN  /\ segments[i].end_dt >= segments[i].start_dt
                /\ segments[i].duration_sec >= OwnOrDefault(last)

\* C3 witness: a Segment of two observations whose last observation has the
\* longer interval.
C3_Witness ==
    /\ seg_pc = "done"
    /\ \E i \in 1..Len(segments) :
          LET ids == segs_raw[i].event_ids IN
          /\ Len(ids) >= 2
          /\ OwnOrDefault(EventById(ids[Len(ids)])) > OwnOrDefault(EventById(ids[1]))

\* C4: a Segment's duration estimate is the sum of its observations' own
\* intervals (the default where an observation has none), its capture count is
\* the number of its observations and its end is the last observation's
\* timestamp plus that observation's own interval; the 09:00 / 09:05 / 09:10
\* example (folded with its interval of 300 s as the default) gives one Segment
\* of 900 s ending 09:15:00 and a 4th observation at 09:40:00 opens a second
\* Segment starting 09:40:00.
C4_DurationCapturesEnd ==
    seg_pc = "done" =>
        /\ \A i \in 1..Len(segments) :
              LET ids == segs_raw[i].event_ids
                  last == EventById(ids[Len(ids)])
              IN  /\ segments[i].duration_sec = SumDur(ids, FoldDefault)
                  /\ segments[i].captures = Len(ids)
                  /\ segments[i].end_dt = last.ts + OwnOrDefault(last)
                  /\ segments[i].start_dt = EventById(ids[1]).ts
        /\ (events = Example3 /\ FoldDefault = 300) =>
              /\ Len(segments) = 1
              /\ segments[1].duration_sec = 900
              /\ segments[1].end_dt = 33300
        /\ (events = Example4 /\ FoldDefault = 300) =>
              /\ Len(segments) = 2
              /\ segments[1].duration_sec = 900
              /\ segments[2].start_dt = 34800

\* C4 witness: the four-observation example folded into two Segments, the
\* first of 900 s ending 09:15:00, the second starting 09:40:00.
C4_Witness ==
    /\ seg_pc = "done"
    /\ events = Example4
    /\ default_interval_sec = 300
    /\ Len(segments) = 2
    /\ segments[1].captures = 3
    /\ segments[1].end_dt = 33300
    /\ segments[2].start_dt = 34800

(***************************************************************************)
(* Properties of the retry loop (RetrySpec)                                *)
(***************************************************************************)
CallPositions == {i \in DOMAIN rt_trace : rt_trace[i].ev = "call"}

\* the 1-based number of the call recorded at position i of the trace
CallNo(i) == Cardinality({j \in CallPositions : j <= i})

\* C7: a granularity makes at most 3 call attempts; after failed attempt k
\* (k = 1, 2) that is followed by a retry the loop waits k seconds before
\* the next call; it never waits after a successful attempt nor after the
\* last attempt, so a finished loop ends on a call, not on a wait.
C7_AtMostThreeAttemptsWithBackoff ==
    /\ Cardinality(CallPositions) <= 3
    /\ \A i \in DOMAIN rt_trace :
          rt_trace[i].ev = "sleep" =>
             /\ i > 1
             /\ rt_trace[i - 1].ev = "call"
             /\ rt_trace[i - 1].kind # "ok"
             /\ CallNo(i - 1) \in {1, 2}
             /\ rt_trace[i].sec = CallNo(i - 1)
    /\ \A i \in CallPositions :
          i < Len(rt_trace) => rt_trace[i + 1].ev = "sleep"
    /\ rt_status \in {"res", "none", "raised"} =>
          /\ rt_trace # <<>>
          /\ rt_trace[Len(rt_trace)].ev = "call"

\* three failed attempts with waits of 1 s and 2 s between them
C7_Witness ==
    /\ rt_status = "none"
    /\ Cardinality(CallPositions) = 3
    /\ Len(rt_trace) = 5
    /\ rt_trace[2] = SleepEvent(1)
    /\ rt_trace[4] = SleepEvent(2)

\* C8: a failed attempt is followed by another attempt only if its error is
\* transient (timeout, rate limit, 5xx, connection reset) and the
\* reachability probe succeeded; when the first attempt fails permanently
\* (authentication, validation, malformed response, ...) or the probe
\* fails, the loop makes exactly one call and ends without a result.
C8_RetryOnlyTransientAndReachable ==
    /\ \A i \in CallPositions :
          i < Len(rt_trace) =>
             /\ rt_trace[i].kind \in TransientKinds
             /\ rt_trace[i].probe = "up"
    /\ (/\ rt_trace # <<>>
        /\ \/ rt_trace[1].kind \in PermanentKinds
           \/ rt_trace[1].probe = "down")
          => (rt_status = "none" /\ Len(rt_trace) = 1)

(***************************************************************************)
(* Properties of the orchestrator (RunSpec)                                *)
(***************************************************************************)
RunFinished == pc = "idle" /\ run >= 1 /\ doc.rendered

\* C5: when summarize_day_to_markdown has run to its end twice with the
\* same date and run-id, the second run made zero remote narrative calls
\* for, and left byte-identical, every artifact file (hour, day,
\* hour-enrich) that the first run had left cached.
C5_SecondRunIdempotent ==
    (RunFinished /\ run >= 2 /\ finished = run) =>
       \A g \in Stages :
          snapshot[g].exists => (g \notin called /\ files[g] = snapshot[g])

\* C6: over all runs of one (date, run-id), an artifact file (hour, day,
\* hour-enrich) that exists is never written again.
C6_ArtifactNeverOverwritten == overwrote = {}

\* C9: whatever a remote narrative call answers, summarize_day_to_markdown
\* does not raise.
C9_NeverRaises == pc # "raised"

\* C10 (as stated): when the hour narrative is enabled, there is an Hour
\* Pack and no hour narrative is available after the hour stage, the
\* document has the hour-degradation warning near its top and every hour is
\* titled from its cluster labels.
C10_WarningAndLabelTitles ==
    (/\ RunFinished
     /\ cfg.hourly
     /\ hour_packs # <<>>
     /\ hourly_llm_map(files["hour"]) = {})
       => /\ Len(doc.top) >= 3
          /\ doc.top[3] = "hour_warning"
          /\ \A i \in DOMAIN hour_packs : doc.titles[i] = "cluster_label"

\* C10 (amended): in that case the document has the hour-degradation
\* warning on its third line, and every hour is titled with its first
\* cluster label if its Hour Pack has a cluster and with the placeholder
\* for "unknown" otherwise.
C10_WarningAndLabelOrUnknownTitles ==
    (/\ RunFinished
     /\ cfg.hourly
     /\ hour_packs # <<>>
     /\ hourly_llm_map(files["hour"]) = {})
       => /\ Len(doc.top) >= 3
          /\ doc.top[3] = "hour_warning"
          /\ \A i \in DOMAIN hour_packs :
                doc.titles[i] = IF hour_packs[i].has_cluster
                                THEN "cluster_label" ELSE "unknown"

\* a degraded hour stage (the call was made and gave nothing usable) over
\* one hour with a cluster and one without
C10_Witness ==
    /\ RunFinished
    /\ cfg.hourly
    /\ "hour" \in called
    /\ hourly_llm_map(files["hour"]) = {}
    /\ Len(hour_packs) = 2
    /\ doc.top[3] = "hour_warning"
    /\ doc.titles = <<"cluster_label", "unknown">>

\* a granularity ends the run DEGRADED: the run called the service for it
\* and got no artifact out of it
Degraded(g) == g \in called /\ (~files[g].exists \/ files[g].stamp # run)

WarningTag(g) ==
    CASE g = "hour" -> "hour_warning"
      [] g = "day" -> "day_warning"
      [] g = "enrich" -> "enrich_warning"

\* C11: a document rendered by a run in which a granularity (hour, day or
\* hour-enrich) ended DEGRADED carries a warning banner for it.
C11_DegradedHasBanner ==
    RunFinished =>
       \A g \in Stages :
          Degraded(g) => \E i \in DOMAIN doc.top : doc.top[i] = WarningTag(g)

(***************************************************************************)
(* Properties of what is derived from observation text (TextSpec)          *)
(***************************************************************************)
KeyTokens == {ApiKey, GluedApiKey}

SegmentItems ==
    {tx_keywords[i] : i \in DOMAIN tx_keywords}
       \cup {tx_snippets[i] : i \in DOMAIN tx_snippets}

TextHas(toks) == \E i \in DOMAIN tx_text : tx_text[i] \in toks

\* C12: when the observation text contains an API-key-like token, the
\* keywords and snippets of its Segment contain the masked form of the key
\* and never the literal key.
C12_KeyMaskedInSegment ==
    (tx_pc = "segment" /\ TextHas({ApiKey})) =>
       /\ MaskedKey \in SegmentItems
       /\ SegmentItems \cap KeyTokens = {}

\* C13: no text in the payload of the hour call or of the day call holds a
\* literal API-key-like token or a literal e-mail address.
C13_PayloadTextsMasked ==
    tx_pc = "payload" =>
       \A t \in tx_hour_payload \cup tx_day_payload :
          \A i \in DOMAIN t : t[i] \notin KeyTokens \cup {EmailAddress}

\* the forms in which a Segment may list an entity of the text
EntityForms(tok) ==
    CASE tok = UrlToken -> {UrlToken, "github.com/org/repo", "github.com"}
      [] tok = PathToken -> {PathToken, "~/notes"}
      [] tok = FileToken -> {FileToken}
      [] tok = LiteralToken -> {LiteralToken}

\* C14: a URL, a POSIX path, a filename with a known extension or the
\* literal 2>&1 in the observation text is listed among the keywords or
\* snippets of its Segment.
C14_EntitiesListedInSegment ==
    tx_pc = "segment" =>
       \A i \in DOMAIN tx_text :
          tx_text[i] \in {UrlToken, PathToken, FileToken, LiteralToken} =>
             SegmentItems \cap EntityForms(tx_text[i]) # {}

(***************************************************************************)
(* Properties of the path from the log file to the document (LogSpec)      *)
(***************************************************************************)
LogEvents == read_jsonl(log_lines)

ValidObservation(e) ==
    e.object /\ e.ts_ok /\ e.interval_ok /\ ~e.excluded /\ ~e.error

\* C15: whatever lines the log holds (not JSON, no usable timestamp,
\* missing or wrongly typed fields), build_segments and
\* summarize_day_to_markdown return normally, and a log without a valid
\* observation gives an empty Segment list.
C15_MalformedInputNeverFails ==
    log_pc \in {"built", "summarized"} =>
       /\ log_outcome = "returned"
       /\ (\A i \in DOMAIN LogEvents : ~ValidObservation(LogEvents[i]))
              => log_segments = <<>>

\* C16: for a log holding zero observations summarize_day_to_markdown
\* returns, writes only the date header and the 'no log' line, and makes no
\* remote call.
C16_EmptyLogPlaceholder ==
    (log_pc = "summarized" /\ LogEvents = <<>>) =>
       /\ log_outcome = "returned"
       /\ log_doc = <<"header", "", "no_log">>
       /\ log_called = {}

C16_Witness ==
    /\ log_pc = "summarized"
    /\ log_lines # <<>>
    /\ LogEvents = <<>>
    /\ log_doc = <<"header", "", "no_log">>

\* the sum of the values of a function with a finite domain
RECURSIVE SumOf(_)
SumOf(f) ==
    IF DOMAIN f = {} THEN 0
    ELSE LET x == CHOOSE y \in DOMAIN f : TRUE
         IN  f[x] + SumOf([y \in DOMAIN f \ {x} |-> f[y]])

LogDefault == IF LogEvents = <<>> THEN FallbackIntervalSec ELSE last_interval(LogEvents)

LogOwnOrDefault(e) == IF e.interval_sec = 0 THEN LogDefault ELSE e.interval_sec

ObservedInHour(h) ==
    {i \in DOMAIN LogEvents :
        LogEvents[i].ts_ok /\ LogEvents[i].ts \div HourSec = h}

\* C17: every hour in which an observation falls has one Hour Pack, whose
\* active_sec_est is the sum of the intervals (the default when absent) of
\* all observations of that hour, excluded and errored ones included; the
\* total over the Hour Packs is at least the total Segment duration; the
\* observations of 09:00:00, 09:05:00, 09:10:00 with interval 300 s give the
\* 09:00 pack at least 900 s.
C17_ActiveSecEstSumsAllObservations ==
    (log_pc = "summarized" /\ log_outcome = "returned") =>
       /\ {log_packs[i].hour : i \in DOMAIN log_packs}
             = {h \in 0..23 : ObservedInHour(h) # {}}
       /\ \A i, j \in DOMAIN log_packs :
             log_packs[i].hour = log_packs[j].hour => i = j
       /\ \A i \in DOMAIN log_packs :
             log_packs[i].active_sec_est =
                SumOf([k \in ObservedInHour(log_packs[i].hour) |->
                          LogOwnOrDefault(LogEvents[k])])
       /\ SumOf([i \in DOMAIN log_packs |-> log_packs[i].active_sec_est])
             >= SumOf([i \in DOMAIN log_segments |->
                          log_segments[i].duration_sec])
       /\ (\A i \in 1..3 : Len(log_lines) >= 3 /\ log_lines[i] = ExampleLog3[i])
             => \E i \in DOMAIN log_packs :
                   log_packs[i].hour = 9 /\ log_packs[i].active_sec_est >= 900

C17_Witness ==
    /\ log_pc = "summarized"
    /\ log_outcome = "returned"
    /\ Len(log_packs) = 2
    /\ \E i \in DOMAIN LogEvents : LogEvents[i].excluded \/ LogEvents[i].error
    /\ \E i \in DOMAIN LogEvents : LogEvents[i].interval_sec = 0

(***************************************************************************)
(* Properties of the active timeline (TimelineSpec)                        *)
(***************************************************************************)
SentencesOf(text) == {text[k] : k \in DOMAIN text}

\* C18: every entry of the active timeline belongs to an observation that
\* marks a display active, and holds only sentences that observation's own
\* active display shows; an observation gives at most one entry.
C18_TimelineFromActiveDisplayOnly ==
    tl_pc = "built" =>
       /\ \A i \in DOMAIN tl_timeline :
             LET e == tl_events[tl_timeline[i].event_id]
             IN  /\ e.active_display # 0
                 /\ tl_timeline[i].ocr_text # <<>>
                 /\ SentencesOf(tl_timeline[i].ocr_text)
                       \subseteq SentencesOf(e.texts[e.active_display])
       /\ \A i, j \in DOMAIN tl_timeline :
             tl_timeline[i].event_id = tl_timeline[j].event_id => i = j

\* two observations of the Segment with different active displays, each
\* showing other text on its other display, both in the timeline
C18_Witness ==
    /\ tl_pc = "built"
    /\ Len(tl_timeline) = 2
    /\ tl_events[1].active_display # tl_events[2].active_display
    /\ \A i \in 1..2 :
          LET e == tl_events[i]
          IN  ~(SentencesOf(e.texts[3 - e.active_display])
                   \subseteq SentencesOf(e.texts[e.active_display]))

(***************************************************************************)
(* Properties of run_daily_automation (DailySpec), stated about the state  *)
(* in which a run has just returned                                        *)
(***************************************************************************)
Attempted == {dr_last.attempts[i].date : i \in DOMAIN dr_last.attempts}

PendingBefore == PendingDates(dr_last.pending_before)

\* the dates the run went through: the pending ones, yesterday when its
\* summary was missing or incomplete, today from 23:55 on
Targets ==
    PendingBefore
       \cup {d \in {dr_today - 1} : dr_last.docs_before[d] # "complete"}
       \cup {d \in {dr_today} : dr_now >= 23 * 60 + 55}

\* C19: after a run, an attempted date is pending exactly when its attempt
\* raised or left a document with the incomplete marker, and its
\* retry_count is then one more than before the run; a date the run found
\* complete was not attempted and is not pending; no date whose latest
\* document is complete is pending.
C19_PendingIffAttemptFailed ==
    dr_last.ran =>
       /\ \A i \in DOMAIN dr_last.attempts :
             LET a == dr_last.attempts[i]
             IN  /\ a.date \in PendingDates(dr_pending)
                       <=> a.outcome \in {"raised", "incomplete"}
                 /\ a.date \in PendingDates(dr_pending) =>
                       retry_count_of(dr_pending, a.date)
                          = retry_count_of(dr_last.pending_before, a.date) + 1
       /\ \A d \in Targets \ Attempted : d \notin PendingDates(dr_pending)
       /\ \A d \in Dates :
             dr_docs[d] = "complete" => d \notin PendingDates(dr_pending)
       /\ \A it, jt \in dr_pending : it.date = jt.date => it = jt

\* a date pending for the second time, next to one that succeeded
C19_Witness ==
    /\ dr_last.ran
    /\ \E it \in dr_pending : it.retry_count = 2
    /\ \E i \in DOMAIN dr_last.attempts :
          dr_last.attempts[i].outcome = "complete"

\* the place of a target date in the order of the run
TargetRank(d) ==
    IF d \in PendingBefore THEN d
    ELSE IF d = dr_today - 1 THEN MaxDays + 1
    ELSE MaxDays + 2

AttemptsInOrder ==
    /\ Attempted \subseteq Targets
    /\ \A i, j \in DOMAIN dr_last.attempts :
          i < j => TargetRank(dr_last.attempts[i].date)
                      < TargetRank(dr_last.attempts[j].date)

RaisedAreSaved ==
    \A i \in DOMAIN dr_last.attempts :
       dr_last.attempts[i].outcome = "raised" =>
          dr_last.attempts[i].date \in PendingDates(dr_pending)

\* C20 (as stated): the run attempts, each once and in the order pending
\* dates ascending, yesterday, today, every pending date, yesterday when its
\* summary is missing or incomplete, and today only from 23:55 on, whatever
\* attempts raised, and saves the pending list.
C20_AttemptsEveryTargetInOrder ==
    dr_last.ran =>
       /\ AttemptsInOrder
       /\ PendingBefore \subseteq Attempted
       /\ dr_last.docs_before[dr_today - 1] # "complete"
             => dr_today - 1 \in Attempted
       /\ RaisedAreSaved

\* C20 (amended): the run attempts, each once and in the order pending
\* dates ascending, yesterday, today, every target date whose latest
\* document is not already complete, whatever attempts raised, and saves the
\* pending list; a target date that is already complete is not attempted.
C20_AttemptsIncompleteTargetsInOrder ==
    dr_last.ran =>
       /\ AttemptsInOrder
       /\ Attempted = {d \in Targets : dr_last.docs_before[d] # "complete"}
       /\ RaisedAreSaved

\* a run at 23:55 or later going through a pending date, yesterday and
\* today, the first attempt raising
C20_Witness ==
    /\ dr_last.ran
    /\ Len(dr_last.attempts) = 3
    /\ dr_last.attempts[1].outcome = "raised"
    /\ dr_last.attempts[1].date \in PendingBefore
    /\ dr_last.attempts[2].date = dr_today - 1
    /\ dr_last.attempts[3].date = dr_today

(***************************************************************************)
(* C21: in an Hour Pack a line is counted at most once for each (Segment,  *)
(* display) on which it is a common text; every line of the pack's         *)
(* common-text list recurs in at least 2 observations of some display; the *)
(* list is ordered by descending count, then by descending sample length,  *)
(* and holds at most 20 lines.                                             *)
(***************************************************************************)
\* the displays on which line s recurs in at least 2 observations
RecurringOn(s) == {d \in 1..2 : sent_count(tl_events, d, s) >= 2}

C21_CommonTextsCountedOncePerSurface ==
    tl_pc = "built" =>
       LET counts == tl_common.common_counts
           texts == tl_common.hour_common_texts
       IN  /\ \A s \in Sentences : counts[s] <= Cardinality(RecurringOn(s))
           /\ \A i \in DOMAIN texts :
                 texts[i] \in Sentences /\ RecurringOn(texts[i]) # {}
           /\ \A i, j \in DOMAIN texts :
                 i < j =>
                    \/ counts[texts[i]] > counts[texts[j]]
                    \/ /\ counts[texts[i]] = counts[texts[j]]
                       /\ Len(texts[i]) >= Len(texts[j])
           /\ Len(texts) <= CommonCap

\* 21 lines recur, one of them on both displays: it leads the list with a
\* count of 2, the longer samples follow, and the list stops at 20
C21_Witness ==
    /\ tl_pc = "built"
    /\ Cardinality({s \in Sentences : RecurringOn(s) # {}}) > CommonCap
    /\ Len(tl_common.hour_common_texts) = CommonCap
    /\ tl_common.common_counts[tl_common.hour_common_texts[1]] = 2
    /\ tl_common.common_counts[tl_common.hour_common_texts[2]] = 1
    /\ Len(tl_common.hour_common_texts[2]) > Len(tl_common.hour_common_texts[20])
    /\ \E d \in 1..2 :
          Len(events_out(tl_events, d, freq_norms(tl_events, d), {})) >= 2

(***************************************************************************)
(* C22: the hour-narrative call covers only hours whose active-time        *)
(* estimate meets the threshold; when more hours are eligible than the cap *)
(* exactly cap-many hours are kept, none of them less active than an       *)
(* eligible hour that was dropped, and they are sent in hour order; an     *)
(* hour with no cluster and no common text is not in the payload; with no  *)
(* eligible hour or an empty payload no remote call is made.  A cap of 0   *)
(* switches the cap off.                                                   *)
(***************************************************************************)
EligibleSet ==
    {i \in DOMAIN hl_packs : hl_packs[i].active_sec_est >= hl_env.min_sec}

KeptSet == {hl_eligible[k] : k \in DOMAIN hl_eligible}

SentSet == {hl_payload[k] : k \in DOMAIN hl_payload}

CapApplies ==
    hl_env.max_hours > 0 /\ Cardinality(EligibleSet) > hl_env.max_hours

DayNarrativeAvailable ==
    files["day"].exists /\ files["day"].shape = "full"

HourNarrativeAvailable ==
    /\ files["hour"].exists
    /\ files["hour"].shape = "full"
    /\ files["hour"].hours # {}

CallsInStageOrder ==
    \A g \in called' \ called :
        /\ g = "hour" => called = {}
        /\ g = "day" => called \subseteq {"hour"}
        /\ g = "enrich" =>
              /\ called \subseteq {"hour", "day"}
              /\ DayNarrativeAvailable
              /\ HourNarrativeAvailable

C23_EnrichCallAfterHourAndDay == [][CallsInStageOrder]_vars

\* one run made all three calls, and the last one wrote its artifact
C23_Witness ==
    /\ called = {"hour", "day", "enrich"}
    /\ files["enrich"].exists
    /\ files["enrich"].stamp = run
    /\ files["hour"].stamp = run
    /\ files["day"].stamp = run

(***************************************************************************)
(* C24: with the hour narrative DEGRADED the day call is still made in the *)
(* same run when some hour has a rule-based fallback title (a cluster      *)
(* label); the day call is not made when no hour has an hour narrative or  *)
(* a cluster label.                                                        *)
(***************************************************************************)
HourNarrativeDegraded ==
    cfg.hourly /\ ~(files["hour"].exists /\ files["hour"].shape = "full"
                     /\ files["hour"].hours # {})

HasNarrativeOrLabel(i) ==
    \/ /\ files["hour"].exists
       /\ files["hour"].shape = "full"
       /\ i \in files["hour"].hours
    \/ hour_packs[i].has_cluster

DayAttemptedWhenHourDegraded ==
    /\ pc \in {"enrich", "render"}
    /\ cfg.daily
    /\ HourNarrativeDegraded
    /\ ~files["day"].exists
    /\ \E i \in DOMAIN hour_packs : hour_packs[i].has_cluster
    => "day" \in called

DayCallNeedsNarrativeOrLabel ==
    "day" \in called => \E i \in DOMAIN hour_packs : HasNarrativeOrLabel(i)

C24_DayCallOnlyWithNarrativeOrLabel ==
    DayAttemptedWhenHourDegraded /\ DayCallNeedsNarrativeOrLabel

(***************************************************************************)
(* C25: the title and the summary the timeline prints for an hour are the  *)
(* same with and without an hour-re-interpretation artifact: the enriched  *)
(* text only adds one line of its own.                                     *)
(***************************************************************************)
IsIntentLine(l) == l.kind \in {"intent", "intent_omitted"}

BaseLines == SelectSeq(hr_lines, LAMBDA l : ~IsIntentLine(l))

C25_BaseTitleAndSummaryKept ==
    hr_pc = "rendered" =>
       /\ BaseLines = timeline_entry(hr_hour, <<>>)
       /\ Len(hr_lines) <= Len(BaseLines) + 1
       /\ \A k \in DOMAIN hr_lines :
             IsIntentLine(hr_lines[k]) => k = Len(hr_lines) - 1

\* an hour with a narrative summary and a different enriched text
C25_Witness ==
    /\ hr_pc = "rendered"
    /\ \E k \in DOMAIN hr_lines :
          hr_lines[k].kind = "summary" /\ hr_lines[k].text = hr_hour.hour_summary
    /\ \E k \in DOMAIN hr_lines :
          hr_lines[k].kind = "intent" /\ hr_lines[k].text = Unrelated
    /\ hr_lines[1] = [kind |-> "title", text |-> <<"T">>]

(***************************************************************************)
(* C26: when the base summary of an hour and its enriched text normalize   *)
(* to the same sequence, the renderer leaves the enriched text out and     *)
(* prints the note saying so.  As stated this fails when both normalize to *)
(* the empty sequence; it holds for a non-empty one.                       *)
(***************************************************************************)
BaseSummary ==
    IF \E k \in DOMAIN hr_lines : hr_lines[k].kind = "summary"
    THEN hr_lines[CHOOSE k \in DOMAIN hr_lines : hr_lines[k].kind = "summary"].text
    ELSE <<>>

SameWhenNormalized ==
    /\ strip(hr_enrich) # <<>>
    /\ normalize_for_similarity(BaseSummary) = normalize_for_similarity(hr_enrich)

EnrichedOmitted ==
    /\ \E k \in DOMAIN hr_lines : hr_lines[k].kind = "intent_omitted"
    /\ \A k \in DOMAIN hr_lines : hr_lines[k].kind # "intent"

\* the claim as stated
C26_SameNormalizedIsOmitted ==
    hr_pc = "rendered" /\ SameWhenNormalized => EnrichedOmitted

\* the claim for texts that do not normalize to nothing
C26_SameNonEmptyNormalizedIsOmitted ==
    /\ hr_pc = "rendered"
    /\ SameWhenNormalized
    /\ normalize_for_similarity(hr_enrich) # <<>>
    => EnrichedOmitted

\* "Refactor parser." against "refactor-parser"
C26_Witness ==
    /\ hr_pc = "rendered"
    /\ SameWhenNormalized
    /\ BaseSummary # hr_enrich
    /\ Len(normalize_for_similarity(hr_enrich)) > MaxChars
    /\ EnrichedOmitted

(***************************************************************************)
(* C27: build_segments_with_event_trace returns one trace record per       *)
(* folded observation, in time order, and the segment_id of each record is *)
(* the id of the Segment the fold placed that observation in: never        *)
(* missing, never another Segment's id.                                    *)
(***************************************************************************)
\* the 0-based id of the Segment holding the p-th folded observation: the
\* fold fills the Segments one after the other
RECURSIVE PlacedIn(_, _)
PlacedIn(p, i) ==
    IF p <= Len(tr_segs[i].event_ids) THEN i - 1
    ELSE PlacedIn(p - Len(tr_segs[i].event_ids), i + 1)

C28_RunIdsDistinct ==
    \A i, j \in DOMAIN rid_issued :
        i # j =>
           /\ rid_issued[i].run_id # rid_issued[j].run_id
           /\ rid_issued[i] # rid_issued[j]

(***************************************************************************)
(* C29: an Hour Pack holds at most 3 Clusters; they are clusters of the    *)
(* hour, none of them with a smaller summed active duration than a cluster *)
(* left out, and the active duration of a cluster is the sum of the        *)
(* intervals of its active-display observations, each counted once.        *)
(***************************************************************************)
ActiveOf(key) ==
    {i \in DOMAIN cl_events :
        cl_events[i].key = key /\ cl_events[i].is_active_display}

HourKeys == {cl_events[i].key : i \in {j \in DOMAIN cl_events :
                                          cl_events[j].is_active_display}}

RECURSIVE IntervalSum(_)
IntervalSum(ids) ==
    IF ids = {} THEN 0
    ELSE LET i == CHOOSE x \in ids : TRUE
         IN  cl_events[i].interval_sec + IntervalSum(ids \ {i})

PackedKeys == {cl_clusters[p] : p \in DOMAIN cl_clusters}

C29_PackHoldsThreeLargestClusters ==
    cl_pc = "packed" =>
       /\ Len(cl_clusters) <= ClusterCap
       /\ Cardinality(PackedKeys) = Len(cl_clusters)
       /\ PackedKeys \subseteq HourKeys
       /\ Cardinality(HourKeys) >= ClusterCap => Len(cl_clusters) = ClusterCap
       /\ Cardinality(HourKeys) < ClusterCap => PackedKeys = HourKeys
       /\ \A key \in HourKeys :
             cl_bucket[key].active_sec = IntervalSum(ActiveOf(key))
       /\ \A kept \in PackedKeys, left \in HourKeys \ PackedKeys :
             IntervalSum(ActiveOf(kept)) >= IntervalSum(ActiveOf(left))

\* four clusters in the hour; the one left out comes before a kept one in
\* label order, and a kept one sums the intervals of two observations
C29_Witness ==
    /\ cl_pc = "packed"
    /\ Cardinality(HourKeys) > ClusterCap
    /\ "Browser" \notin PackedKeys
    /\ \E kept \in PackedKeys :
          /\ Cardinality(ActiveOf(kept)) >= 2
          /\ cl_bucket[kept].active_sec > 300

(***************************************************************************)
(* C30: with segment-level labelling enabled, summarize_day_to_markdown    *)
(* uses the labels enrich_day_with_llm produced for the same date: the     *)
(* file the one writes is the file the other loads.                        *)
(***************************************************************************)
EnrichedLabels(date) ==
    {f.labels : f \in {g \in lb_files : g.path = day_paths(date)}}

C30_SummarizeLoadsEnrichLabels ==
    /\ lb_pc = "summarized"
    /\ lb_env.use_segment_llm
    /\ EnrichedLabels(lb_date) # {}
    => lb_llm_map \in EnrichedLabels(lb_date)

====
